---- MODULE Spec2Model ----
(***************************************************************************)
(* Verification model of the course repository's small HTTP services.      *)
(*                                                                         *)
(* Part 1 (SpecHw2, SpecHw2Conc): the hw2 author/book API,                 *)
(*   instructor/homework/hw2.  Each request handler opens its own database *)
(*   session.  A commit applies the session's pending statements at once,  *)
(*   and the database checks the constraints the table models declare      *)
(*   (primary key, NOT NULL, UNIQUE email, FOREIGN KEY author_id); a       *)
(*   violated constraint raises out of the handler (HTTP 500) and changes  *)
(*   nothing.  SpecHw2 serves the requests one at a time and records each  *)
(*   response; SpecHw2Conc interleaves the handlers of two workers, where  *)
(*   a handler that reads a row (session.get) before it commits is split   *)
(*   at that point.                                                        *)
(*                                                                         *)
(* Part 2 (SpecJwt, SpecJwtClient): the JWT demo of lectures 08/09,         *)
(*   instructor/lectures/09-security-and-authentication-2.  The user store *)
(*   is the in-memory dictionary, the clock counts minutes, and a token is *)
(*   the claims it carries together with the key that signed it.           *)
(*                                                                         *)
(* Part 3 (SpecHw3): the hw3 book shelf, instructor/homework/hw3/student,  *)
(*   with one signed session cookie per client.                            *)
(*                                                                         *)
(* Part 4 (SpecCookie): the session-cookie demo of lecture 06.             *)
(*                                                                         *)
(* Part 5 (SpecArt): the artifact API of lecture 15 over the user and     *)
(*   artifact tables and the module-level current_user.                    *)
(*                                                                         *)
(* Part 6 (SpecAutograder, SpecAutograderRuns): the autograder script of   *)
(*   hw3, statement by statement.                                          *)
(*                                                                         *)
(* Part 7 (SpecItems): the in-memory item store of lecture 12, whose       *)
(*   handlers run on pool threads.                                         *)
(*                                                                         *)
(* Part 8 (SpecClick): the click counter of lecture 17, whose handlers run *)
(*   on the event loop.                                                    *)
(***************************************************************************)
EXTENDS Integers, Sequences, FiniteSets, TLC

\* ------------------------------------------------------------------ bounds
\* The clock of the JWT demo stops at MaxTime minutes.
MaxTime == 31
\* The book ids in play; the serial sequence of book.id stops there.
MaxBookId == 1
\* The session ids uuid4 can draw in the cookie demo.
MaxSessions == 4
\* The books the hw3 book table holds at most.
MaxHw3Books == 2
\* The user ids the serial sequence of the artifact API's user.id hands out.
MaxArtUserId == 2
\* The artifact ids the serial sequence of artifact.id hands out.
MaxArtifactId == 2
\* The create_item requests the item store of lecture 12 is sent.
MaxItems == 3
\* The GET /click requests the click counter of lecture 17 is sent.
MaxClicks == 4

\* ------------------------------------------------------- optional values
\* Python's None and a present value.
None == <<>>
Some(x) == <<x>>
Val(o) == o[1]
Opt(S) == {None} \cup {Some(x) : x \in S}

\* ------------------------------------------------------------ hw2 domains
Procs == {1, 2}
\* The author ids in play; the serial sequence of author.id stops there.
\* Two emails exist and email is unique, so two authors is all the table
\* ever holds at a time.
AuthorIds == {1, 2}
BookIds == 1..MaxBookId
Names == {"n1", "n2"}
Emails == {"e1", "e2"}
Titles == {"t1", "t2"}
Years == {2020}

\* Request bodies.  The handlers take the table models themselves as the
\* body and read every field with "is not None": any field may be absent.
AuthorBodies == [id : Opt(AuthorIds), name : Opt(Names), email : Opt(Emails)]
BookBodies == [id : Opt(BookIds), title : Opt(Titles), year : Opt(Years),
               author_id : Opt(AuthorIds)]

\* The POST requests that are sent: every column but, possibly, the id.
AuthorPosts == {b \in AuthorBodies : b.name # None /\ b.email # None}
BookPosts == {b \in BookBodies :
                b.title # None /\ b.year # None /\ b.author_id # None}

\* The PATCH requests that are sent: any subset of the columns, never the id
\* (the handlers do not read it).
AuthorUpdates == {b \in AuthorBodies : b.id = None}
BookUpdates == {b \in BookBodies : b.id = None}

VARIABLES
    authors,      \* table author: id -> [name, email]
    books,        \* table book:   id -> [title, year, author_id]
    author_seq,   \* last value drawn from the serial sequence of author.id
    book_seq,     \* last value drawn from the serial sequence of book.id
    pc,           \* per worker: the handler it is in, between its read and its commit
    response,     \* the HTTP response a handler has produced, until it is sent
    history       \* history variable: per author id, what the requests so far did

VARIABLES
    fake_users_db,  \* the user store: username -> user dictionary
    now,            \* datetime.now(timezone.utc), in minutes
    jwt_response,   \* the response a route has produced, until it is sent
    client_token,   \* code/client.py: the token get_token returned, if any
    deleted_since   \* history variable: the token's user was deleted after
                    \* the token was issued

VARIABLES
    sessions,         \* cookie demo: session id -> UserPreferences
    cookie_response,  \* the response a route has produced, until it is sent
    issued_ids        \* history variable: the session ids logins have issued

VARIABLES
    hw3_users,      \* hw3 table user: id -> [name, email, password]
    hw3_books,      \* hw3 table book: id -> [title, author, user_id]
    http_session,   \* per client: request.session's "user_id", if set
    register_pc,    \* per client: the email of a registration between its
                    \* lookup and its commit
    hw3_response    \* the response a handler has produced, until it is sent

\* The artifact API of lectures 13-15: the user table, the serial sequence of
\* user.id, the module-level current_user of main.py, and the response of the
\* request served last.
VARIABLES
    art_users,
    art_user_seq,
    art_current_user,
    art_response,
    artifacts,
    artifact_seq

\* The hw3 autograder, run_tests.py: the statement it is at, the results
\* dictionary, the author and book ids it took from the responses, the
\* server process it started, and the report file.
VARIABLES
    ag_pc,
    results,
    ag_author_id,
    ag_book_id,
    server_process,
    results_json

\* The item store of lecture 12: the items dictionary, what each worker
\* thread holds between the two statements of create_item, the response of
\* the request served last, and (history) the items created, in the order
\* of their responses.
VARIABLES
    items,
    item_pc,
    item_response,
    created_items

\* The click counter of lecture 17: the global click_count, what each
\* browser's page shows, the response of the request served last, and
\* (history) the counts the /click responses have shown, in order.
VARIABLES
    click_count,
    displayed,
    click_response,
    shown_counts

hw2vars == <<authors, books, author_seq, book_seq, pc, response, history>>
hw3vars == <<hw3_users, hw3_books, http_session, register_pc, hw3_response>>
jwtvars == <<fake_users_db, now, jwt_response, client_token, deleted_since>>
cookievars == <<sessions, cookie_response, issued_ids>>
artvars == <<art_users, art_user_seq, art_current_user, art_response,
            artifacts, artifact_seq>>
agvars == <<ag_pc, results, ag_author_id, ag_book_id, server_process, results_json>>
itemvars == <<items, item_pc, item_response, created_items>>
clickvars == <<click_count, displayed, click_response, shown_counts>>
vars == <<hw2vars, jwtvars, cookievars, hw3vars, artvars, agvars, itemvars,
          clickvars>>

\* What the actions of one service leave alone: the other services' state.
nonhw2vars ==
    <<jwtvars, cookievars, hw3vars, artvars, agvars,
      itemvars, clickvars>>
nonjwtvars ==
    <<hw2vars, cookievars, hw3vars, artvars, agvars,
      itemvars, clickvars>>
noncookievars ==
    <<hw2vars, jwtvars, hw3vars, artvars, agvars,
      itemvars, clickvars>>
nonhw3vars ==
    <<hw2vars, jwtvars, cookievars, artvars, agvars,
      itemvars, clickvars>>
nonartvars ==
    <<hw2vars, jwtvars, cookievars, hw3vars, agvars,
      itemvars, clickvars>>
nonitemvars ==
    <<hw2vars, jwtvars, cookievars, hw3vars, artvars, agvars, clickvars>>
nonclickvars ==
    <<hw2vars, jwtvars, cookievars, hw3vars, artvars, agvars, itemvars>>
nonagvars ==
    <<hw2vars, jwtvars, cookievars, hw3vars, artvars,
      itemvars, clickvars>>

Idle == [op |-> "idle", id |-> None, author_id |-> None]
NoResponse == [op |-> "none", status |-> 0, id |-> None, args |-> None, body |-> None]
Resp(op, status, id, args, body) ==
    [op |-> op, status |-> status, id |-> id, args |-> args, body |-> body]

\* ------------------------------------------------------------ table models
\* class Author: the row as the API returns it.
Author(id, row) == [id |-> id, name |-> row.name, email |-> row.email]
\* class Book
Book(id, row) == [id |-> id, title |-> row.title, year |-> row.year,
                  author_id |-> row.author_id]

Put(T, id, row) == [i \in DOMAIN T \cup {id} |-> IF i = id THEN row ELSE T[i]]
Del(T, id) == [i \in DOMAIN T \ {id} |-> T[i]]
Empty == [i \in {} |-> None]

\* (the table without its UNIQUE constraint)
EmailUniqueUnchecked(A, id, email) == TRUE

\* email: str = Field(unique=True): no other row holds this email.
EmailUnique(A, id, email) == \A j \in DOMAIN A : j # id => A[j].email # email

\* author_id: int = Field(foreign_key="author.id"), checked when a book row is
\* written ...
AuthorFkHolds(A, author_id) == author_id \in DOMAIN A

\* (the tables without the check on DELETE)
AuthorUnreferencedUnchecked(B, author_id) == TRUE

\* ... and when an author row is deleted: no book row may still reference it.
AuthorUnreferenced(B, author_id) == \A b \in DOMAIN B : B[b].author_id # author_id

\* ------------------------------------------------------- author endpoints
\* A handler's outcome: the HTTP status, the response body and the tables
\* and sequence as the handler leaves them.
Outcome(status, body, A, B, aseq, bseq) ==
    [status |-> status, body |-> body, authors |-> A, books |-> B,
     author_seq |-> aseq, book_seq |-> bseq]

\* (create_author storing the name in the email column as well)
create_author_email_from_name(A, B, aseq, bseq, body) ==
    LET serial == body.id = None
        id == IF serial THEN aseq + 1 ELSE Val(body.id)
        aseq2 == IF serial THEN aseq + 1 ELSE aseq
        row == [name |-> Val(body.name), email |-> Val(body.name)]
    IN  IF id \notin DOMAIN A /\ EmailUnique(A, id, row.email)
        THEN Outcome(200, Author(id, row), Put(A, id, row), B, aseq2, bseq)
        ELSE Outcome(500, "IntegrityError", A, B, aseq2, bseq)

\* POST /authors/ : session.add(author); commit; refresh; return author.
\* An absent id is drawn from the serial sequence (the draw is kept even
\* when the INSERT then fails); a supplied id is inserted as given.
create_author(A, B, aseq, bseq, body) ==
    LET serial == body.id = None
        id == IF serial THEN aseq + 1 ELSE Val(body.id)
        aseq2 == IF serial THEN aseq + 1 ELSE aseq
        ok == /\ body.name # None
              /\ body.email # None
              /\ id \notin DOMAIN A
              /\ EmailUnique(A, id, Val(body.email))
        row == [name |-> Val(body.name), email |-> Val(body.email)]
    IN  IF ok
        THEN Outcome(200, Author(id, row), Put(A, id, row), B, aseq2, bseq)
        ELSE Outcome(500, "IntegrityError", A, B, aseq2, bseq)

\* GET /authors/{author_id}
get_author(A, B, aseq, bseq, author_id) ==
    IF author_id \notin DOMAIN A
    THEN Outcome(404, "Author not found", A, B, aseq, bseq)
    ELSE Outcome(200, Author(author_id, A[author_id]), A, B, aseq, bseq)

\* PATCH /authors/{author_id}, up to the 404: author = session.get(...)
update_author_found(A, author_id) == author_id \in DOMAIN A

\* (update_author_commit without "author.name = author_update.name")
update_author_commit_skips_name(A, B, aseq, bseq, author_id, body) ==
    IF author_id \notin DOMAIN A
    THEN Outcome(500, "StaleDataError", A, B, aseq, bseq)
    ELSE LET row == [name |-> A[author_id].name,
                     email |-> IF body.email # None THEN Val(body.email)
                               ELSE A[author_id].email]
         IN  IF EmailUnique(A, author_id, row.email)
             THEN Outcome(200, Author(author_id, row), Put(A, author_id, row),
                          B, aseq, bseq)
             ELSE Outcome(500, "IntegrityError", A, B, aseq, bseq)

\* PATCH /authors/{author_id}, from the assignments on: the fields that are
\* not None are written, commit, refresh.  The UPDATE finds no row when the
\* author was deleted since the read (StaleDataError).
update_author_commit(A, B, aseq, bseq, author_id, body) ==
    IF author_id \notin DOMAIN A
    THEN Outcome(500, "StaleDataError", A, B, aseq, bseq)
    ELSE LET row == [name |-> IF body.name # None THEN Val(body.name)
                              ELSE A[author_id].name,
                     email |-> IF body.email # None THEN Val(body.email)
                               ELSE A[author_id].email]
         IN  IF EmailUnique(A, author_id, row.email)
             THEN Outcome(200, Author(author_id, row), Put(A, author_id, row),
                          B, aseq, bseq)
             ELSE Outcome(500, "IntegrityError", A, B, aseq, bseq)

\* DELETE /authors/{author_id}, up to the 404
delete_author_found(A, author_id) == author_id \in DOMAIN A

\* (delete_author_commit without "session.delete(author)")
delete_author_commit_no_delete(A, B, aseq, bseq, author_id) ==
    Outcome(200, "Author deleted successfully", A, B, aseq, bseq)

\* DELETE /authors/{author_id}: session.delete(author); commit.  A DELETE
\* that matches no row any more is only a warning.
delete_author_commit(A, B, aseq, bseq, author_id) ==
    IF author_id \notin DOMAIN A
    THEN Outcome(200, "Author deleted successfully", A, B, aseq, bseq)
    ELSE IF AuthorUnreferenced(B, author_id)
         THEN Outcome(200, "Author deleted successfully", Del(A, author_id),
                      B, aseq, bseq)
         ELSE Outcome(500, "IntegrityError", A, B, aseq, bseq)

\* --------------------------------------------------------- book endpoints
\* (create_book without its "if not author" check)
create_book_author_found_unchecked(A, author_id) == TRUE

\* POST /books/, up to the 404: author = session.get(Author, book.author_id)
create_book_author_found(A, author_id) ==
    author_id # None /\ Val(author_id) \in DOMAIN A

\* POST /books/: session.add(book); commit; refresh; return book
create_book_commit(A, B, aseq, bseq, body) ==
    LET serial == body.id = None
        id == IF serial THEN bseq + 1 ELSE Val(body.id)
        bseq2 == IF serial THEN bseq + 1 ELSE bseq
        ok == /\ body.title # None
              /\ body.year # None
              /\ body.author_id # None
              /\ id \notin DOMAIN B
              /\ AuthorFkHolds(A, Val(body.author_id))
    IN  IF ok
        THEN LET row == [title |-> Val(body.title), year |-> Val(body.year),
                         author_id |-> Val(body.author_id)]
             IN  Outcome(200, Book(id, row), A, Put(B, id, row), aseq, bseq2)
        ELSE Outcome(500, "IntegrityError", A, B, aseq, bseq2)

\* GET /books/{book_id}
get_book(A, B, aseq, bseq, book_id) ==
    IF book_id \notin DOMAIN B
    THEN Outcome(404, "Book not found", A, B, aseq, bseq)
    ELSE Outcome(200, Book(book_id, B[book_id]), A, B, aseq, bseq)

\* (update_book without its "if not author" check)
update_book_found_skips_author(A, B, book_id, author_id) ==
    IF book_id \notin DOMAIN B THEN "Book not found" ELSE "ok"

\* (update_book without its "if not book" check)
update_book_found_skips_book(A, B, book_id, author_id) ==
    IF author_id # None /\ Val(author_id) \notin DOMAIN A
    THEN "Author not found"
    ELSE "ok"

\* PATCH /books/{book_id}, up to its two 404s: the book is read, title and
\* year are set on the session's object only, and a supplied author_id is
\* looked up.  "ok", or the detail of the 404.
update_book_found(A, B, book_id, author_id) ==
    IF book_id \notin DOMAIN B THEN "Book not found"
    ELSE IF author_id # None /\ Val(author_id) \notin DOMAIN A
         THEN "Author not found"
         ELSE "ok"

\* PATCH /books/{book_id}: commit; refresh; return book
update_book_commit(A, B, aseq, bseq, book_id, body) ==
    IF book_id \notin DOMAIN B
    THEN Outcome(500, "StaleDataError", A, B, aseq, bseq)
    ELSE LET old == B[book_id]
             row == [title |-> IF body.title # None THEN Val(body.title)
                               ELSE old.title,
                     year |-> IF body.year # None THEN Val(body.year)
                              ELSE old.year,
                     author_id |-> IF body.author_id # None
                                   THEN Val(body.author_id) ELSE old.author_id]
         IN  IF AuthorFkHolds(A, row.author_id)
             THEN Outcome(200, Book(book_id, row), A, Put(B, book_id, row),
                          aseq, bseq)
             ELSE Outcome(500, "IntegrityError", A, B, aseq, bseq)

\* DELETE /books/{book_id}, up to the 404
delete_book_found(B, book_id) == book_id \in DOMAIN B

\* DELETE /books/{book_id}: session.delete(book); commit
delete_book_commit(A, B, aseq, bseq, book_id) ==
    Outcome(200, "Book deleted successfully", A, Del(B, book_id), aseq, bseq)

\* int(result.rowcount or 0)
RowcountOrZero(rowcount) == IF rowcount = None \/ rowcount = Some(0) THEN 0
                            ELSE Val(rowcount)

\* (reset_database without "session.exec(delete(Author))")
reset_database_books_only(A, B, aseq, bseq) ==
    LET books_deleted == RowcountOrZero(Some(Cardinality(DOMAIN B)))
    IN  Outcome(200,
                [books_deleted |-> books_deleted,
                 authors_deleted |-> 0,
                 total_deleted |-> books_deleted],
                A, Empty, aseq, bseq)

\* DELETE /reset/: delete(Book), then delete(Author), one commit.
reset_database(A, B, aseq, bseq) ==
    LET books_deleted == RowcountOrZero(Some(Cardinality(DOMAIN B)))
        authors_deleted == RowcountOrZero(Some(Cardinality(DOMAIN A)))
    IN  Outcome(200,
                [books_deleted |-> books_deleted,
                 authors_deleted |-> authors_deleted,
                 total_deleted |-> books_deleted + authors_deleted],
                Empty, Empty, aseq, bseq)

\* ------------------------------------------------------------ hw2 actions
\* SpecHw2 serves the requests one at a time: an action is a whole handler,
\* from the request to the response, which is sent before the next request
\* is taken.
Apply(out) ==
    /\ authors' = out.authors
    /\ books' = out.books
    /\ author_seq' = out.author_seq
    /\ book_seq' = out.book_seq
    /\ UNCHANGED nonhw2vars

\* The history variable (it records, and decides nothing).  Of author id i:
\*   <<"created", name, email>>  a create_author answered 200 with id i for
\*        this name and email, and no update_author(i), delete_author(i) or
\*        reset_database request came after it;
\*   <<"deleted">>  a delete_author(i) answered 200, and no create_author
\*        has answered 200 with id i since;
\*   <<>>  neither.
Untracked == <<>>
Created(body) == <<"created", Val(body.name), Val(body.email)>>
Deleted == <<"deleted">>
IsCreated(h) == Len(h) = 3

Track(h, op, id, args, out) ==
    [i \in AuthorIds |->
        IF op = "create_author" /\ out.status = 200 /\ out.body.id = i
            THEN Created(args)
        ELSE IF op = "delete_author" /\ id = Some(i) /\ out.status = 200
            THEN Deleted
        ELSE IF \/ op \in {"update_author", "delete_author"} /\ id = Some(i)
                \/ op = "reset_database"
            THEN (IF IsCreated(h[i]) THEN Untracked ELSE h[i])
        ELSE h[i]]

Finish(op, id, args, out) ==
    /\ response.op = "none"
    /\ Apply(out)
    /\ response' = Resp(op, out.status, id, args, out.body)
    /\ history' = Track(history, op, id, args, out)
    /\ UNCHANGED pc

\* The response goes out and the server takes the next request.
SendResponse ==
    /\ response.op # "none"
    /\ response' = NoResponse
    /\ UNCHANGED <<authors, books, author_seq, book_seq, pc, history>>
    /\ UNCHANGED nonhw2vars

\* raise HTTPException(status_code=404, detail=...): the session closes
\* without a commit.
NotFound(detail) ==
    Outcome(404, detail, authors, books, author_seq, book_seq)

CreateAuthor ==
    \E body \in AuthorPosts :
        /\ body.id = None => author_seq + 1 \in AuthorIds
        /\ Finish("create_author", None, body,
                  create_author(authors, books, author_seq, book_seq, body))

GetAuthor ==
    \E author_id \in AuthorIds :
        Finish("get_author", Some(author_id), None,
               get_author(authors, books, author_seq, book_seq, author_id))

UpdateAuthor ==
    \E author_id \in AuthorIds, body \in AuthorUpdates :
        Finish("update_author", Some(author_id), body,
               IF update_author_found(authors, author_id)
               THEN update_author_commit(authors, books, author_seq, book_seq,
                                         author_id, body)
               ELSE NotFound("Author not found"))

DeleteAuthor ==
    \E author_id \in AuthorIds :
        Finish("delete_author", Some(author_id), None,
               IF delete_author_found(authors, author_id)
               THEN delete_author_commit(authors, books, author_seq, book_seq,
                                         author_id)
               ELSE NotFound("Author not found"))

CreateBook ==
    \E body \in BookPosts :
        /\ body.id = None => book_seq + 1 \in BookIds
        /\ Finish("create_book", None, body,
                  IF create_book_author_found(authors, body.author_id)
                  THEN create_book_commit(authors, books, author_seq, book_seq,
                                          body)
                  ELSE NotFound("Author not found"))

GetBook ==
    \E book_id \in BookIds :
        Finish("get_book", Some(book_id), None,
               get_book(authors, books, author_seq, book_seq, book_id))

UpdateBook ==
    \E book_id \in BookIds, body \in BookUpdates :
        LET found == update_book_found(authors, books, book_id, body.author_id)
        IN  Finish("update_book", Some(book_id), body,
                   IF found = "ok"
                   THEN update_book_commit(authors, books, author_seq, book_seq,
                                           book_id, body)
                   ELSE NotFound(found))

DeleteBook ==
    \E book_id \in BookIds :
        Finish("delete_book", Some(book_id), None,
               IF delete_book_found(books, book_id)
               THEN delete_book_commit(authors, books, author_seq, book_seq,
                                       book_id)
               ELSE NotFound("Book not found"))

ResetDatabase ==
    Finish("reset_database", None, None,
           reset_database(authors, books, author_seq, book_seq))

\* SpecHw2Conc runs the handlers on concurrent workers (the framework's
\* thread pool).  A handler that reads before it writes is two steps, its
\* session.get calls and its commit, and other workers' steps may come in
\* between.  Only what a handler has read is kept between its steps; the
\* part of the request body it uses at the commit is drawn there, which
\* gives the same behaviours as drawing it with the request.  Responses are
\* not recorded, and the read-only handlers are left out.
Pend(p, op, id, author_id) ==
    /\ pc' = [pc EXCEPT ![p] = [op |-> op, id |-> id, author_id |-> author_id]]
    /\ UNCHANGED <<authors, books, author_seq, book_seq, response, history>>
    /\ UNCHANGED nonhw2vars

Done(p, out) ==
    /\ Apply(out)
    /\ pc' = [pc EXCEPT ![p] = Idle]
    /\ UNCHANGED <<response, history>>

CreateAuthorTxn(p) ==
    /\ pc[p] = Idle
    /\ \E body \in AuthorPosts :
        /\ body.id = None => author_seq + 1 \in AuthorIds
        /\ Done(p, create_author(authors, books, author_seq, book_seq, body))

UpdateAuthorRead(p) ==
    /\ pc[p] = Idle
    /\ \E author_id \in AuthorIds :
        /\ update_author_found(authors, author_id)
        /\ Pend(p, "update_author", Some(author_id), None)

UpdateAuthorCommit(p) ==
    /\ pc[p].op = "update_author"
    /\ \E body \in AuthorUpdates :
        Done(p, update_author_commit(authors, books, author_seq, book_seq,
                                     Val(pc[p].id), body))

DeleteAuthorRead(p) ==
    /\ pc[p] = Idle
    /\ \E author_id \in AuthorIds :
        /\ delete_author_found(authors, author_id)
        /\ Pend(p, "delete_author", Some(author_id), None)

DeleteAuthorCommit(p) ==
    /\ pc[p].op = "delete_author"
    /\ Done(p, delete_author_commit(authors, books, author_seq, book_seq,
                                    Val(pc[p].id)))

CreateBookRead(p) ==
    /\ pc[p] = Idle
    /\ \E author_id \in {Some(a) : a \in AuthorIds} :
        /\ create_book_author_found(authors, author_id)
        /\ Pend(p, "create_book", None, author_id)

CreateBookCommit(p) ==
    /\ pc[p].op = "create_book"
    /\ \E body \in BookPosts :
        /\ body.author_id = pc[p].author_id
        /\ body.id = None => book_seq + 1 \in BookIds
        /\ Done(p, create_book_commit(authors, books, author_seq, book_seq,
                                      body))

UpdateBookRead(p) ==
    /\ pc[p] = Idle
    /\ \E book_id \in BookIds, author_id \in Opt(AuthorIds) :
        /\ update_book_found(authors, books, book_id, author_id) = "ok"
        /\ Pend(p, "update_book", Some(book_id), author_id)

UpdateBookCommit(p) ==
    /\ pc[p].op = "update_book"
    /\ \E body \in BookUpdates :
        /\ body.author_id = pc[p].author_id
        /\ Done(p, update_book_commit(authors, books, author_seq, book_seq,
                                      Val(pc[p].id), body))

DeleteBookRead(p) ==
    /\ pc[p] = Idle
    /\ \E book_id \in BookIds :
        /\ delete_book_found(books, book_id)
        /\ Pend(p, "delete_book", Some(book_id), None)

DeleteBookCommit(p) ==
    /\ pc[p].op = "delete_book"
    /\ Done(p, delete_book_commit(authors, books, author_seq, book_seq,
                                  Val(pc[p].id)))

ResetDatabaseTxn(p) ==
    /\ pc[p] = Idle
    /\ Done(p, reset_database(authors, books, author_seq, book_seq))

\* SQLModel.metadata.create_all(engine): empty tables, fresh sequences.
InitHw2 ==
    /\ authors = Empty
    /\ books = Empty
    /\ author_seq = 0
    /\ book_seq = 0
    /\ pc = [p \in Procs |-> Idle]
    /\ response = NoResponse
    /\ history = [i \in AuthorIds |-> Untracked]

NextHw2 ==
    \/ CreateAuthor
    \/ GetAuthor
    \/ UpdateAuthor
    \/ DeleteAuthor
    \/ CreateBook
    \/ GetBook
    \/ UpdateBook
    \/ DeleteBook
    \/ ResetDatabase
    \/ SendResponse

NextHw2Conc ==
    \E p \in Procs :
        \/ CreateAuthorTxn(p)
        \/ UpdateAuthorRead(p)
        \/ UpdateAuthorCommit(p)
        \/ DeleteAuthorRead(p)
        \/ DeleteAuthorCommit(p)
        \/ CreateBookRead(p)
        \/ CreateBookCommit(p)
        \/ UpdateBookRead(p)
        \/ UpdateBookCommit(p)
        \/ DeleteBookRead(p)
        \/ DeleteBookCommit(p)
        \/ ResetDatabaseTxn(p)

\* ================================================================ JWT demo
\* app/core/config.py
SECRET_KEY == "09d25e094faa6ca2556c818166b7a9563b93f7099f6f0f4caa6cf63b88e8d3e7"
ALGORITHM == "HS256"
ACCESS_TOKEN_EXPIRE_MINUTES == 30
\* create_access_token's default: timedelta(minutes=15)
DEFAULT_EXPIRE_MINUTES == 15

Times == 0..MaxTime
Usernames == {"johndoe", "alice"}
Passwords == {"secret", "wrongpassword"}
Salts == {"ukiUCP.QeMZNdLHNYzL1su"}

\* pwd_context.hash(password): bcrypt of the password under a salt, which
\* the hash string carries.
get_password_hash(password, salt) ==
    [scheme |-> "bcrypt", salt |-> salt, digest |-> <<"bcrypt", salt, password>>]

\* pwd_context.verify(plain_password, hashed_password): hash the plain
\* password under the stored salt and compare the digests.
verify_password(plain_password, hashed_password) ==
    get_password_hash(plain_password, hashed_password.salt).digest
        = hashed_password.digest

Hashes == {get_password_hash(pw, salt) : pw \in Passwords, salt \in Salts}

\* class UserInDB(User): a user dictionary of the store
UserInDB(username, hashed_password, disabled) ==
    [username |-> username,
     full_name |-> IF username = "johndoe" THEN "John Doe" ELSE "Alice",
     email |-> IF username = "johndoe" THEN "john@example.com"
               ELSE "alice@example.com",
     hashed_password |-> hashed_password,
     disabled |-> disabled]

\* class User: the public model
User(d) == [username |-> d.username, email |-> d.email,
            full_name |-> d.full_name, disabled |-> d.disabled]

\* fake_users_db as the module defines it: johndoe, password "secret"
InitialUsers ==
    [u \in {"johndoe"} |->
        UserInDB("johndoe",
                 get_password_hash("secret", "ukiUCP.QeMZNdLHNYzL1su"), FALSE)]

\* ---------------------------------------------------------- app/db/database.py
get_user(db, username) ==
    IF username \in DOMAIN db THEN Some(db[username]) ELSE None

user_exists(db, username) == username \in DOMAIN db

\* list(fake_users_db.keys())
RECURSIVE KeyList(_)
KeyList(keys) ==
    IF keys = {} THEN <<>>
    ELSE LET k == CHOOSE x \in keys : TRUE
         IN  <<k>> \o KeyList(keys \ {k})

get_all_usernames(db) == KeyList(DOMAIN db)

\* (create_user without its user_exists check)
create_user_overwrites(db, user_data) ==
    IF user_data.username # None
    THEN [result |-> TRUE,
          db |-> Put(db, Val(user_data.username),
                     UserInDB(Val(user_data.username),
                              user_data.hashed_password, user_data.disabled))]
    ELSE [result |-> FALSE, db |-> db]

\* [result, db]: what the function returns and the store it leaves
create_user(db, user_data) ==
    IF user_data.username # None /\ ~user_exists(db, Val(user_data.username))
    THEN [result |-> TRUE,
          db |-> Put(db, Val(user_data.username),
                     UserInDB(Val(user_data.username),
                              user_data.hashed_password, user_data.disabled))]
    ELSE [result |-> FALSE, db |-> db]

\* fake_users_db[username].update(user_data): the keys of user_data that are
\* present overwrite the entry's.
update_user(db, username, user_data) ==
    IF user_exists(db, username)
    THEN [result |-> TRUE,
          db |-> [db EXCEPT ![username] =
                    [@ EXCEPT !.hashed_password =
                                  IF user_data.hashed_password # None
                                  THEN Val(user_data.hashed_password) ELSE @,
                              !.disabled =
                                  IF user_data.disabled # None
                                  THEN Val(user_data.disabled) ELSE @]]]
    ELSE [result |-> FALSE, db |-> db]

delete_user(db, username) ==
    IF user_exists(db, username)
    THEN [result |-> TRUE, db |-> Del(db, username)]
    ELSE [result |-> FALSE, db |-> db]

\* ------------------------------------------------------------ app/core/auth.py
\* (authenticate_user without its verify_password check)
authenticate_user_any_password(db, username, password) == get_user(db, username)

authenticate_user(db, username, password) ==
    LET user == get_user(db, username)
    IN  IF user = None THEN None
        ELSE IF ~verify_password(password, Val(user).hashed_password) THEN None
        ELSE user

\* A token: the claims, and the key it was signed with.  form "garbage" is a
\* string that is no JWT at all.
Token(key, sub, exp) == [form |-> "jwt", key |-> key, sub |-> sub, exp |-> exp]
Garbage == [form |-> "garbage", key |-> "", sub |-> None, exp |-> None]

\* (create_access_token always taking its default lifetime)
create_access_token_default_expiry(sub, expires_delta, t) ==
    Token(SECRET_KEY, Some(sub), Some(t + DEFAULT_EXPIRE_MINUTES))

\* jwt.encode(to_encode, SECRET_KEY, algorithm=ALGORITHM) after
\* to_encode.update({"exp": expire})
create_access_token(sub, expires_delta, t) ==
    LET expire == IF expires_delta # None /\ Val(expires_delta) # 0
                  THEN t + Val(expires_delta)
                  ELSE t + DEFAULT_EXPIRE_MINUTES
    IN  Token(SECRET_KEY, Some(sub), Some(expire))

\* jwt.decode(token, SECRET_KEY, algorithms=[ALGORITHM]): the payload, or the
\* exception it raises.
jwt_decode(token, key, t) ==
    IF token.form # "jwt" THEN [error |-> "JWTError", payload |-> None]
    ELSE IF token.key # key THEN [error |-> "JWTError", payload |-> None]
    ELSE IF token.exp # None /\ Val(token.exp) < t
         THEN [error |-> "ExpiredSignatureError", payload |-> None]
    ELSE [error |-> "",
          payload |-> Some([sub |-> token.sub, exp |-> token.exp])]

\* (decode_access_token on a decoder that skips the exp claim)
decode_access_token_ignores_exp(token, t) ==
    IF token.form = "jwt" /\ token.key = SECRET_KEY
    THEN Some([sub |-> token.sub, exp |-> token.exp])
    ELSE None

decode_access_token(token, t) ==
    LET decoded == jwt_decode(token, SECRET_KEY, t)
    IN  IF decoded.error = "ExpiredSignatureError" THEN None
        ELSE IF decoded.error = "JWTError" THEN None
        ELSE decoded.payload

\* ---------------------------------------------------- app/core/dependencies.py
\* A dependency's result: the HTTP status it raises (or 200) and the value or
\* the detail.
Dep(status, value) == [status |-> status, value |-> value]

\* OAuth2PasswordBearer(tokenUrl=TOKEN_URL): the bearer token of the
\* Authorization header, 401 without one.
oauth2_scheme(authorization) ==
    IF authorization = None THEN Dep(401, "Not authenticated")
    ELSE Dep(200, Val(authorization))

\* (get_current_user without its "if user is None" check: the None it then
\* returns fails in the caller, HTTP 500)
get_current_user_no_user_check(db, t, authorization) ==
    LET bearer == oauth2_scheme(authorization)
        payload == decode_access_token(bearer.value, t)
        username == Val(payload).sub
        user == get_user(db, Val(username))
    IN  IF bearer.status # 200 THEN bearer
        ELSE IF payload = None THEN Dep(401, "Could not validate credentials")
        ELSE IF username = None THEN Dep(401, "Could not validate credentials")
        ELSE IF user = None THEN Dep(500, "Internal Server Error")
        ELSE Dep(200, Val(user))

get_current_user(db, t, authorization) ==
    LET bearer == oauth2_scheme(authorization)
        payload == decode_access_token(bearer.value, t)
        username == Val(payload).sub
        user == get_user(db, Val(username))
    IN  IF bearer.status # 200 THEN bearer
        ELSE IF payload = None THEN Dep(401, "Could not validate credentials")
        ELSE IF username = None THEN Dep(401, "Could not validate credentials")
        ELSE IF user = None THEN Dep(401, "Could not validate credentials")
        ELSE Dep(200, Val(user))

\* get_current_user_optional: Depends(oauth2_scheme) is resolved first and
\* raises its 401 itself; the HTTPException of get_current_user becomes None.
get_current_user_optional(db, t, authorization) ==
    LET bearer == oauth2_scheme(authorization)
        current_user == get_current_user(db, t, authorization)
    IN  IF bearer.status # 200 THEN bearer
        ELSE IF current_user.status # 200 THEN Dep(200, None)
        ELSE Dep(200, Some(current_user.value))

\* (get_current_active_user handing on the stored UserInDB itself)
get_current_active_user_returns_stored(db, t, authorization) ==
    LET current_user == get_current_user(db, t, authorization)
    IN  IF current_user.status # 200 THEN current_user
        ELSE IF current_user.value.disabled
             THEN Dep(400, "User account is disabled")
        ELSE Dep(200, current_user.value)

get_current_active_user(db, t, authorization) ==
    LET current_user == get_current_user(db, t, authorization)
    IN  IF current_user.status # 200 THEN current_user
        ELSE IF current_user.value.disabled
             THEN Dep(400, "User account is disabled")
        ELSE Dep(200, User(current_user.value))

\* ------------------------------------------------------------ app/api/routes.py
\* POST /token
login_for_access_token(db, t, username, password) ==
    LET user == authenticate_user(db, username, password)
    IN  IF user = None
        THEN Dep(401, "Incorrect username or password")
        ELSE Dep(200, [access_token |->
                           create_access_token(Val(user).username,
                                               Some(ACCESS_TOKEN_EXPIRE_MINUTES), t),
                       token_type |-> "bearer"])

\* GET /users/me, response_model=User
read_users_me(db, t, authorization) ==
    LET current_user == get_current_active_user(db, t, authorization)
    IN  IF current_user.status # 200 THEN current_user
        ELSE Dep(200, User(current_user.value))

\* GET /users/me/items/
read_own_items(db, t, authorization) ==
    LET current_user == get_current_active_user(db, t, authorization)
    IN  IF current_user.status # 200 THEN current_user
        ELSE Dep(200,
                 <<[item_id |-> "item_001", name |-> "Sample Item",
                    description |-> "This is a sample item owned by the user",
                    owner |-> current_user.value.username,
                    created_at |-> "2024-01-01T00:00:00Z"],
                   [item_id |-> "item_002", name |-> "Another Item",
                    description |-> "Another sample item",
                    owner |-> current_user.value.username,
                    created_at |-> "2024-01-02T00:00:00Z"]>>)

\* GET /public/info
get_public_info ==
    Dep(200, [name |-> "Authentication Demo API", version |-> "1.0.0",
              authentication |-> "JWT Bearer tokens"])

\* "@premium.com" in current_user.email
IsPremiumEmail(email) == email \in {"alice@premium.com"}

\* GET /users/me/profile/extended
get_extended_profile(db, t, authorization) ==
    LET current_user == get_current_active_user(db, t, authorization)
        u == current_user.value
    IN  IF current_user.status # 200 THEN current_user
        ELSE Dep(200,
                 [basic_info |-> [username |-> u.username, email |-> u.email,
                                  full_name |-> u.full_name],
                  account_status |->
                      [disabled |-> u.disabled,
                       account_type |-> IF IsPremiumEmail(u.email)
                                        THEN "premium" ELSE "basic",
                       last_login |-> "2024-01-15T10:30:00Z"],
                  preferences |-> [theme |-> "dark", notifications |-> TRUE,
                                   language |-> "en"]])

\* ------------------------------------------------------------- JWT actions
\* The bearer tokens a request may carry: none, garbage, and every set of
\* claims under the server's key or another one.
Keys == {SECRET_KEY, "another key"}
Tokens == {Garbage} \cup
          {Token(k, sub, exp) : k \in Keys, sub \in Opt(Usernames), exp \in Opt(Times)}
Authorizations == Opt(Tokens)

\* The same at time t, with the exp claims that matter there: none, the
\* minute before t, and t itself.
AuthorizationsAt(t) ==
    Opt({Garbage} \cup
        {Token(k, sub, exp) : k \in Keys, sub \in Opt(Usernames),
                              exp \in {None, Some(t - 1), Some(t)}})

UserData == [username : Opt(Usernames), hashed_password : Hashes,
             disabled : BOOLEAN]
UserChanges == [hashed_password : Opt(Hashes), disabled : Opt(BOOLEAN)]

NoJwtResponse == [route |-> "none", status |-> 0, args |-> None, body |-> None]

JwtFinish(route, args, status, body, db) ==
    /\ jwt_response.route = "none"
    /\ jwt_response' = [route |-> route, status |-> status, args |-> args,
                        body |-> body]
    /\ fake_users_db' = db
    /\ UNCHANGED <<now, client_token, deleted_since, nonjwtvars>>

LoginForAccessToken ==
    \E username \in Usernames, password \in Passwords :
        LET r == login_for_access_token(fake_users_db, now, username, password)
        IN  JwtFinish("login_for_access_token",
                      [username |-> username, password |-> password],
                      r.status, r.value, fake_users_db)

ReadUsersMe ==
    \E authorization \in Authorizations :
        LET r == read_users_me(fake_users_db, now, authorization)
        IN  JwtFinish("read_users_me", authorization, r.status, r.value,
                      fake_users_db)

ReadOwnItems ==
    \E authorization \in AuthorizationsAt(now) :
        LET r == read_own_items(fake_users_db, now, authorization)
        IN  JwtFinish("read_own_items", authorization, r.status, r.value,
                      fake_users_db)

GetPublicInfo ==
    JwtFinish("get_public_info", None, get_public_info.status,
              get_public_info.value, fake_users_db)

GetExtendedProfile ==
    \E authorization \in AuthorizationsAt(now) :
        LET r == get_extended_profile(fake_users_db, now, authorization)
        IN  JwtFinish("get_extended_profile", authorization, r.status, r.value,
                      fake_users_db)

\* A request to a route that declares Depends(get_current_user_optional):
\* what the dependency raises, or the value it hands to the route.
GetCurrentUserOptional ==
    \E authorization \in AuthorizationsAt(now) :
        LET r == get_current_user_optional(fake_users_db, now, authorization)
        IN  JwtFinish("get_current_user_optional", authorization, r.status,
                      r.value, fake_users_db)

CreateUser ==
    \E user_data \in UserData :
        LET r == create_user(fake_users_db, user_data)
        IN  JwtFinish("create_user", user_data, 0, r.result, r.db)

UpdateUser ==
    \E username \in Usernames, user_data \in UserChanges :
        LET r == update_user(fake_users_db, username, user_data)
        IN  JwtFinish("update_user", <<username, user_data>>, 0, r.result, r.db)

DeleteUser ==
    \E username \in Usernames :
        LET r == delete_user(fake_users_db, username)
        IN  JwtFinish("delete_user", username, 0, r.result, r.db)

\* The response goes out.
JwtSendResponse ==
    /\ jwt_response.route # "none"
    /\ jwt_response' = NoJwtResponse
    /\ UNCHANGED <<fake_users_db, now, client_token, deleted_since, nonjwtvars>>

\* Time passes: a minute, or a token's lifetime.
Tick ==
    /\ jwt_response.route = "none"
    /\ \E d \in {1, ACCESS_TOKEN_EXPIRE_MINUTES} :
        /\ now + d <= MaxTime
        /\ now' = now + d
    /\ UNCHANGED <<fake_users_db, jwt_response, client_token, deleted_since,
                   nonjwtvars>>

InitJwt ==
    /\ fake_users_db = InitialUsers
    /\ now = 0
    /\ jwt_response = NoJwtResponse
    /\ client_token = None
    /\ deleted_since = FALSE

NextJwt ==
    \/ LoginForAccessToken
    \/ ReadUsersMe
    \/ ReadOwnItems
    \/ GetPublicInfo
    \/ GetExtendedProfile
    \/ GetCurrentUserOptional
    \/ CreateUser
    \/ UpdateUser
    \/ DeleteUser
    \/ JwtSendResponse
    \/ Tick

\* ------------------------------------------------- JWT demo, with a client
\* SpecJwtClient follows one client (code/client.py) that logs in, keeps the
\* token it was given and presents it later, while users are created,
\* updated and deleted in the store and time passes.

\* get_token(username, password): POST /token; a 200 response's access_token
\* is the token the client holds from now on.
GetToken ==
    \E username \in Usernames, password \in Passwords :
        LET r == login_for_access_token(fake_users_db, now, username, password)
        IN  /\ jwt_response.route = "none"
            /\ jwt_response' = [route |-> "login_for_access_token",
                                args |-> [username |-> username,
                                          password |-> password],
                                status |-> r.status, body |-> r.value]
            /\ IF r.status = 200
               THEN /\ client_token' = Some(r.value.access_token)
                    /\ deleted_since' = FALSE
               ELSE UNCHANGED <<client_token, deleted_since>>
            /\ UNCHANGED <<fake_users_db, now, nonjwtvars>>

\* get_user_info(token): GET /users/me with the token as the bearer
GetUserInfo ==
    /\ jwt_response.route = "none"
    /\ client_token # None
    /\ LET r == read_users_me(fake_users_db, now, client_token)
       IN  jwt_response' = [route |-> "read_users_me", args |-> client_token,
                            status |-> r.status, body |-> r.value]
    /\ UNCHANGED <<fake_users_db, now, client_token, deleted_since, nonjwtvars>>

\* The store's functions called directly (no route calls them).
StoreChange(db) ==
    /\ jwt_response.route = "none"
    /\ fake_users_db' = db
    /\ UNCHANGED <<now, jwt_response, client_token, nonjwtvars>>

StoreCreateUser ==
    \E user_data \in UserData :
        /\ StoreChange(create_user(fake_users_db, user_data).db)
        /\ UNCHANGED deleted_since

StoreUpdateUser ==
    \E username \in Usernames, user_data \in UserChanges :
        /\ StoreChange(update_user(fake_users_db, username, user_data).db)
        /\ UNCHANGED deleted_since

StoreDeleteUser ==
    \E username \in Usernames :
        LET r == delete_user(fake_users_db, username)
        IN  /\ StoreChange(r.db)
            /\ deleted_since' =
                  IF /\ r.result
                     /\ client_token # None
                     /\ Val(client_token).sub = Some(username)
                  THEN TRUE ELSE deleted_since

NextJwtClient ==
    \/ GetToken
    \/ GetUserInfo
    \/ StoreCreateUser
    \/ StoreUpdateUser
    \/ StoreDeleteUser
    \/ JwtSendResponse
    \/ Tick

\* ================================================================== hw3
\* instructor/homework/hw3/student: users register and log in, the session
\* middleware keeps "user_id" in each client's signed session cookie, and a
\* logged-in user creates and deletes books of their own.  The database is
\* SQLite: a new row's id is one more than the largest id in its table.
Clients == {1, 2}
Hw3Names == {"Ann"}
Hw3Emails == {"ann@x.org", "bob@x.org"}
Hw3Passwords == {"pw1", "pw2"}
Hw3Titles == {"Dune"}
Hw3Authors == {"Herbert"}
Hw3BookIds == 1..MaxHw3Books

\* auth.py leaves these three to the student; they are modelled from their
\* docstrings.
\* hash_password: "Hash a password using bcrypt."
hash_password(password) == get_password_hash(password, "hw3salt")

\* verify_password: "Verify a password against a hashed password."
hw3_verify_password(plain_password, hashed_password) ==
    verify_password(plain_password, hashed_password)

\* get_current_user: "Get the current logged-in user from the session.
\* Raises HTTPException(401) if not authenticated."  sess is the request's
\* session: its "user_id", if set.
hw3_get_current_user(U, sess) ==
    IF sess = None THEN Dep(401, "Not authenticated")
    ELSE IF Val(sess) \notin DOMAIN U THEN Dep(401, "Not authenticated")
    ELSE Dep(200, [id |-> Val(sess)])

\* SQLite's rowid for an INSERT without an id
NextRowId(T) ==
    IF DOMAIN T = {} THEN 1
    ELSE (CHOOSE m \in DOMAIN T : \A i \in DOMAIN T : i <= m) + 1

\* select(User).where(User.email == email).first()
UserByEmail(U, email) ==
    IF \E i \in DOMAIN U : U[i].email = email
    THEN Some(CHOOSE i \in DOMAIN U : U[i].email = email)
    ELSE None

\* A handler's outcome: the response (status, body, and Location for a
\* redirect), and the tables and the client's session as it leaves them.
Hw3Out(status, body, location, U, B, sess) ==
    [status |-> status, body |-> body, location |-> location,
     users |-> U, books |-> B, session |-> sess]

\* (register without its lookup of the email)
register_existing_user_unchecked(U, email) == None

\* POST /register, up to the lookup of the email
register_existing_user(U, email) == UserByEmail(U, email)

\* POST /register, from "hashed_pw = hash_password(password)" on.  The
\* INSERT fails on the UNIQUE index when the email was stored since the
\* lookup.
register_commit(U, B, sess, name, email, password) ==
    IF UserByEmail(U, email) # None
    THEN Hw3Out(500, "IntegrityError", None, U, B, sess)
    ELSE LET id == NextRowId(U)
             row == [name |-> name, email |-> email,
                     password |-> hash_password(password)]
         IN  Hw3Out(303, "", Some("/dashboard"), Put(U, id, row), B, Some(id))

\* POST /login
hw3_login(U, B, sess, email, password) ==
    LET user == UserByEmail(U, email)
    IN  IF user = None \/ ~hw3_verify_password(password, U[Val(user)].password)
        THEN Hw3Out(200, [template |-> "login.html",
                          error |-> "Invalid email or password"],
                    None, U, B, sess)
        ELSE Hw3Out(303, "", Some("/dashboard"), U, B, user)

\* GET /dashboard
dashboard(U, B, sess) ==
    LET user == hw3_get_current_user(U, sess)
    IN  IF user.status # 200
        THEN Hw3Out(307, "", Some("/login"), U, B, sess)
        ELSE Hw3Out(200,
                    [template |-> "dashboard.html", user |-> user.value.id,
                     books |-> {b \in DOMAIN B : B[b].user_id = user.value.id}],
                    None, U, B, sess)

\* (create_book without its "except HTTPException": the 401 of
\* get_current_user leaves the handler as it is)
hw3_create_book_uncaught(U, B, sess, title, author) ==
    LET user == hw3_get_current_user(U, sess)
        id == NextRowId(B)
        row == [title |-> title, author |-> author, user_id |-> user.value.id]
    IN  IF user.status # 200
        THEN Hw3Out(401, user.value, None, U, B, sess)
        ELSE Hw3Out(200, [template |-> "fragments/book_item.html",
                          book |-> id],
                    None, U, Put(B, id, row), sess)

\* POST /books
hw3_create_book(U, B, sess, title, author) ==
    LET user == hw3_get_current_user(U, sess)
        id == NextRowId(B)
        row == [title |-> title, author |-> author, user_id |-> user.value.id]
    IN  IF user.status # 200
        THEN Hw3Out(401, "Unauthorized", None, U, B, sess)
        ELSE Hw3Out(200, [template |-> "fragments/book_item.html",
                          book |-> id],
                    None, U, Put(B, id, row), sess)

\* (delete_book without its "book.user_id != user.id" check)
hw3_delete_book_any_owner(U, B, sess, book_id) ==
    LET user == hw3_get_current_user(U, sess)
    IN  IF user.status # 200
        THEN Hw3Out(401, "Unauthorized", None, U, B, sess)
        ELSE IF book_id \notin DOMAIN B
        THEN Hw3Out(404, "Not found", None, U, B, sess)
        ELSE Hw3Out(200, "", None, U, Del(B, book_id), sess)

\* DELETE /books/{book_id}
hw3_delete_book(U, B, sess, book_id) ==
    LET user == hw3_get_current_user(U, sess)
    IN  IF user.status # 200
        THEN Hw3Out(401, "Unauthorized", None, U, B, sess)
        ELSE IF book_id \notin DOMAIN B \/ B[book_id].user_id # user.value.id
        THEN Hw3Out(404, "Not found", None, U, B, sess)
        ELSE Hw3Out(200, "", None, U, Del(B, book_id), sess)

\* (logout without its request.session.clear())
logout_keeps_session(U, B, sess) ==
    Hw3Out(303, "", Some("/login"), U, B, sess)

\* POST /logout: request.session.clear()
logout(U, B, sess) == Hw3Out(303, "", Some("/login"), U, B, None)

\* ------------------------------------------------------------ hw3 actions
NoHw3Response ==
    [route |-> "none", client |-> 0, status |-> 0, args |-> None,
     body |-> None, location |-> None]

\* Client c's request to route has been handled with outcome out.
Hw3Finish(route, c, args, out) ==
    /\ hw3_response.route = "none"
    /\ hw3_response' = [route |-> route, client |-> c, status |-> out.status,
                        args |-> args, body |-> out.body,
                        location |-> out.location]
    /\ hw3_users' = out.users
    /\ hw3_books' = out.books
    /\ http_session' = [http_session EXCEPT ![c] = out.session]
    /\ UNCHANGED nonhw3vars

\* POST /register is two steps, the lookup of the email and the commit, and
\* another worker's registration may commit in between.  Of the form only
\* the email is kept between the steps; name and password are drawn at the
\* commit, which gives the same behaviours.
RegisterLookup(c) ==
    /\ register_pc[c] = None
    /\ \E email \in Hw3Emails :
          IF register_existing_user(hw3_users, email) # None
          THEN /\ Hw3Finish("register", c, [email |-> email],
                            Hw3Out(200, [template |-> "register.html",
                                         error |-> "Email already registered"],
                                   None, hw3_users, hw3_books, http_session[c]))
               /\ UNCHANGED register_pc
          ELSE /\ hw3_response.route = "none"
               /\ register_pc' = [register_pc EXCEPT ![c] = Some(email)]
               /\ UNCHANGED <<hw3_users, hw3_books, http_session, hw3_response,
                              nonhw3vars>>

RegisterCommit(c) ==
    /\ register_pc[c] # None
    /\ \E name \in Hw3Names, password \in Hw3Passwords :
          Hw3Finish("register", c, [email |-> Val(register_pc[c])],
                    register_commit(hw3_users, hw3_books, http_session[c],
                                    name, Val(register_pc[c]), password))
    /\ register_pc' = [register_pc EXCEPT ![c] = None]

Hw3Login(c) ==
    /\ \E email \in Hw3Emails, password \in Hw3Passwords :
          Hw3Finish("login", c, [email |-> email, password |-> password],
                    hw3_login(hw3_users, hw3_books, http_session[c],
                              email, password))
    /\ UNCHANGED register_pc

Dashboard(c) ==
    /\ Hw3Finish("dashboard", c, None,
                 dashboard(hw3_users, hw3_books, http_session[c]))
    /\ UNCHANGED register_pc

Hw3CreateBook(c) ==
    /\ NextRowId(hw3_books) \in Hw3BookIds
    /\ \E title \in Hw3Titles, author \in Hw3Authors :
          Hw3Finish("create_book", c, None,
                    hw3_create_book(hw3_users, hw3_books, http_session[c],
                                    title, author))
    /\ UNCHANGED register_pc

Hw3DeleteBook(c) ==
    /\ \E book_id \in Hw3BookIds :
          Hw3Finish("delete_book", c, Some(book_id),
                    hw3_delete_book(hw3_users, hw3_books, http_session[c],
                                    book_id))
    /\ UNCHANGED register_pc

Logout(c) ==
    /\ Hw3Finish("logout", c, None,
                 logout(hw3_users, hw3_books, http_session[c]))
    /\ UNCHANGED register_pc

Hw3SendResponse ==
    /\ hw3_response.route # "none"
    /\ hw3_response' = NoHw3Response
    /\ UNCHANGED <<hw3_users, hw3_books, http_session, register_pc, nonhw3vars>>

\* create_db_and_tables() on an empty database; no client has a session.
InitHw3 ==
    /\ hw3_users = Empty
    /\ hw3_books = Empty
    /\ http_session = [c \in Clients |-> None]
    /\ register_pc = [c \in Clients |-> None]
    /\ hw3_response = NoHw3Response

NextHw3 ==
    \/ \E c \in Clients :
          \/ RegisterLookup(c)
          \/ RegisterCommit(c)
          \/ Hw3Login(c)
          \/ Dashboard(c)
          \/ Hw3CreateBook(c)
          \/ Hw3DeleteBook(c)
          \/ Logout(c)
    \/ Hw3SendResponse

\* =========================================================== cookie demo
\* lectures/06-nested-models-datatypes+/09_cookie_example/main.py (and
\* 11_response_model/main.py, the same handlers with response models).
SessionIds == 1..MaxSessions
\* A cookie value that no login ever issues.
ForgedIds == {0}
LoginNames == {"testuser", "alice"}

\* class UserPreferences
UserPreferences(theme, notifications) ==
    [theme |-> theme, notifications |-> notifications]

\* (get_preferences answering the default preferences to any request)
get_preferences_defaults_for_all(S, session_id) ==
    IF session_id # None /\ Val(session_id) \in DOMAIN S
    THEN Dep(200, S[Val(session_id)])
    ELSE Dep(200, UserPreferences("light", TRUE))

\* GET /preferences: session_id is the request's cookie, None without one.
get_preferences(S, session_id) ==
    IF session_id # None /\ Val(session_id) \in DOMAIN S
    THEN Dep(200, S[Val(session_id)])
    ELSE Dep(401, "Invalid session ID")

\* POST /login: [response, sessions]; uuid is what uuid.uuid4() drew.
login(S, username, uuid) ==
    [status |-> 200,
     value |-> [message |-> "Logged in successfully", session_id |-> uuid],
     set_cookie |-> Some(uuid),
     sessions |-> Put(S, uuid, UserPreferences("dark", TRUE))]

NoCookieResponse ==
    [route |-> "none", status |-> 0, args |-> None, body |-> None,
     set_cookie |-> None]

GetPreferences ==
    /\ cookie_response.route = "none"
    /\ \E session_id \in Opt(SessionIds \cup ForgedIds) :
          LET r == get_preferences(sessions, session_id)
          IN  cookie_response' = [route |-> "get_preferences",
                                  status |-> r.status, args |-> session_id,
                                  body |-> r.value, set_cookie |-> None]
    /\ UNCHANGED <<sessions, issued_ids, noncookievars>>

\* uuid.uuid4() draws an id that was not drawn before.
Login ==
    /\ cookie_response.route = "none"
    /\ \E username \in LoginNames, uuid \in SessionIds \ DOMAIN sessions :
          LET r == login(sessions, username, uuid)
          IN  /\ cookie_response' = [route |-> "login", status |-> r.status,
                                     args |-> username, body |-> r.value,
                                     set_cookie |-> r.set_cookie]
              /\ sessions' = r.sessions
              /\ issued_ids' = issued_ids \cup {Val(r.set_cookie)}
    /\ UNCHANGED noncookievars

CookieSendResponse ==
    /\ cookie_response.route # "none"
    /\ cookie_response' = NoCookieResponse
    /\ UNCHANGED <<sessions, issued_ids, noncookievars>>

InitCookie ==
    /\ sessions = Empty
    /\ cookie_response = NoCookieResponse
    /\ issued_ids = {}

NextCookie ==
    \/ GetPreferences
    \/ Login
    \/ CookieSendResponse

\* ------------------------------------------------------------ artifact API
\* lectures.live/15-backend-integration-4.live/artifact/main.py over
\* instructor/lectures/15-backend-integration-4/artifact/db.py: users
\* register and log in, and the module remembers the user who logged in last
\* in the global current_user.  The database is PostgreSQL: user.id comes
\* from a serial sequence, username and email are unique.
ArtUsernames == {"ada@lovelace.org", "alan@turing.org"}
ArtPasswords == {"correcthorse1", "batterystaple2"}
ArtRoles == {"creator"}
ArtifactNames == {"Root Box"}
ArtifactIds == 1..MaxArtifactId
UserIn == [username : ArtUsernames, password : ArtPasswords,
           email : ArtUsernames, role : ArtRoles]

UserOut(id, row) ==
    [id |-> id, username |-> row.username, email |-> row.email,
     role |-> row.role, owns |-> <<>>]

\* An exception on its way out of a handler
HTTPException(status_code, detail) ==
    [status_code |-> status_code, detail |-> detail]

\* str() of a Starlette HTTPException: "{status_code}: {detail}"
StatusDigits(status_code) ==
    CASE status_code = 404 -> "404"
      [] status_code = 500 -> "500"
      [] OTHER -> "000"

str(e) == StatusDigits(e.status_code) \o ": " \o e.detail

\* What a handler hands back: the response, the user table and its
\* sequence, current_user, and the artifact table and its sequence.
ArtOut(status, body, U, seq, cur, A, aseq) ==
    [status |-> status, body |-> body, users |-> U, seq |-> seq, cur |-> cur,
     artifacts |-> A, aseq |-> aseq]

\* DatabaseService.register_user: the INSERT draws the next id, then the
\* unique constraints are checked; a violation raises DatabaseError.
db_register_user(U, seq, user_data) ==
    LET id == seq + 1
        row == [username |-> user_data.username, email |-> user_data.email,
                role |-> user_data.role, password_hash |-> user_data.password]
    IN  IF \E i \in DOMAIN U : \/ U[i].username = row.username
                               \/ U[i].email = row.email
        THEN [raised |-> TRUE, message |-> "Could not create user",
              users |-> U, seq |-> id]
        ELSE [raised |-> FALSE, value |-> UserOut(id, row),
              users |-> Put(U, id, row), seq |-> id]

\* POST /api/user/register
register_user(U, seq, cur, A, aseq, user) ==
    LET r == db_register_user(U, seq, user)
    IN  IF r.raised
        THEN ArtOut(500, [detail |-> r.message], r.users, r.seq, cur, A, aseq)
        ELSE ArtOut(200, r.value, r.users, r.seq, cur, A, aseq)

\* DatabaseService.find_user: the first user with this username and this
\* password_hash, as a UserOut
find_user(U, user_data) ==
    IF \E i \in DOMAIN U : /\ U[i].username = user_data.username
                           /\ U[i].password_hash = user_data.password
    THEN LET i == CHOOSE i \in DOMAIN U :
                     /\ U[i].username = user_data.username
                     /\ U[i].password_hash = user_data.password
         IN  Some(UserOut(i, U[i]))
    ELSE None

\* POST /api/user/login.  The HTTPException(404) is raised inside the try
\* block, and "except Exception" catches it: HTTPException is an Exception.
login_user(U, seq, cur, A, aseq, user) ==
    LET reg_user == find_user(U, user)
    IN  IF reg_user = None
        THEN LET e == HTTPException(404, "Unknown username or password")
             IN  ArtOut(500, [detail |-> str(e)], U, seq, cur, A, aseq)
        ELSE ArtOut(200, Val(reg_user), U, seq, reg_user, A, aseq)

\* get_current_user_id: the id of current_user, or an Exception
get_current_user_id(cur) ==
    IF cur = None
    THEN [raised |-> TRUE, message |-> "User not logged in"]
    ELSE [raised |-> FALSE, value |-> Val(cur).id]

ArtifactCreate == [name : ArtifactNames, parent_id : Opt(ArtifactIds)]

\* select(Artifact.id).where(Artifact.parent_id == id)
Children(A, id) == {i \in DOMAIN A : A[i].parent_id = Some(id)}

\* DatabaseService._artifact_model_to_schema
artifact_model_to_schema(A, id) ==
    [id |-> id, name |-> A[id].name, owner_id |-> A[id].owner_id,
     parent_id |-> A[id].parent_id, children |-> Children(A, id)]

\* FOREIGN KEY artifact.owner_id -> user.id
OwnerFkHolds(U, row) == row.owner_id \in DOMAIN U

\* (the artifact table without its foreign key on parent_id)
ParentFkUnchecked(A, id, row) == TRUE

\* FOREIGN KEY artifact.parent_id -> artifact.id, checked when the INSERT
\* statement ends: the new row is in the table by then and may name itself.
ParentFkHolds(A, id, row) ==
    row.parent_id = None \/ Val(row.parent_id) \in DOMAIN A \cup {id}

\* DatabaseService.create_new_artifact: the INSERT draws the next id, then
\* the foreign keys are checked; a violation raises DatabaseError.
create_new_artifact(U, A, aseq, artifact, owner_id) ==
    LET id == aseq + 1
        row == [name |-> artifact.name, owner_id |-> owner_id,
                parent_id |-> artifact.parent_id]
    IN  IF OwnerFkHolds(U, row) /\ ParentFkHolds(A, id, row)
        THEN [raised |-> FALSE,
              value |-> artifact_model_to_schema(Put(A, id, row), id),
              artifacts |-> Put(A, id, row), aseq |-> id]
        ELSE [raised |-> TRUE, message |-> "Could not create Artifact",
              artifacts |-> A, aseq |-> id]

\* POST /api/artifact/create
create_artifact(U, seq, cur, A, aseq, artifact) ==
    LET owner == get_current_user_id(cur)
        r == create_new_artifact(U, A, aseq, artifact, owner.value)
    IN  IF owner.raised
        THEN ArtOut(500, [detail |-> owner.message], U, seq, cur, A, aseq)
        ELSE IF r.raised
        THEN ArtOut(500, [detail |-> r.message], U, seq, cur,
                    r.artifacts, r.aseq)
        ELSE ArtOut(200, r.value, U, seq, cur, r.artifacts, r.aseq)

\* DatabaseService.get_artifact_by_id: the DatabaseError for a missing row
\* is raised inside the try block and wrapped into another DatabaseError.
db_get_artifact_by_id(A, artifact_id) ==
    IF artifact_id \notin DOMAIN A
    THEN [raised |-> TRUE, message |-> "Could not find Artifact"]
    ELSE [raised |-> FALSE, value |-> artifact_model_to_schema(A, artifact_id)]

\* GET /api/artifact/{artifact_id}
get_artifact_by_id(U, seq, cur, A, aseq, artifact_id) ==
    LET r == db_get_artifact_by_id(A, artifact_id)
    IN  IF r.raised
        THEN ArtOut(500, [detail |-> r.message], U, seq, cur, A, aseq)
        ELSE ArtOut(200, r.value, U, seq, cur, A, aseq)

\* GET /api/artifact/{artifact_id}/children
get_artifact_children(U, seq, cur, A, aseq, artifact_id) ==
    ArtOut(200, Children(A, artifact_id), U, seq, cur, A, aseq)

\* GET /api/reset: drop_all and create_all; current_user stays.
reset(U, seq, cur, A, aseq) == ArtOut(200, "reset", Empty, 0, cur, Empty, 0)

NoArtResponse ==
    [route |-> "none", status |-> 0, args |-> None, body |-> None]

ArtFinish(route, args, out) ==
    /\ art_response.route = "none"
    /\ art_response' = [route |-> route, status |-> out.status,
                        args |-> args, body |-> out.body]
    /\ art_users' = out.users
    /\ art_user_seq' = out.seq
    /\ art_current_user' = out.cur
    /\ artifacts' = out.artifacts
    /\ artifact_seq' = out.aseq
    /\ UNCHANGED nonartvars

RegisterUser ==
    /\ art_user_seq < MaxArtUserId
    /\ \E user \in UserIn :
          ArtFinish("register", user,
                    register_user(art_users, art_user_seq, art_current_user,
                                  artifacts, artifact_seq, user))

LoginUser ==
    /\ art_response.route = "none"
    /\ \E user \in UserIn :
          ArtFinish("login", user,
                    login_user(art_users, art_user_seq, art_current_user,
                               artifacts, artifact_seq, user))

Reset ==
    /\ art_response.route = "none"
    /\ ArtFinish("reset", None,
                 reset(art_users, art_user_seq, art_current_user,
                       artifacts, artifact_seq))

CreateArtifact ==
    /\ artifact_seq < MaxArtifactId
    /\ \E artifact \in ArtifactCreate :
          ArtFinish("create_artifact", artifact,
                    create_artifact(art_users, art_user_seq, art_current_user,
                                    artifacts, artifact_seq, artifact))

GetArtifactById ==
    /\ art_response.route = "none"
    /\ \E artifact_id \in ArtifactIds :
          ArtFinish("get_artifact_by_id", artifact_id,
                    get_artifact_by_id(art_users, art_user_seq,
                                       art_current_user, artifacts,
                                       artifact_seq, artifact_id))

GetArtifactChildren ==
    /\ art_response.route = "none"
    /\ \E artifact_id \in ArtifactIds :
          ArtFinish("get_artifact_children", artifact_id,
                    get_artifact_children(art_users, art_user_seq,
                                          art_current_user, artifacts,
                                          artifact_seq, artifact_id))

ArtSendResponse ==
    /\ art_response.route # "none"
    /\ art_response' = NoArtResponse
    /\ UNCHANGED <<art_users, art_user_seq, art_current_user, artifacts,
                   artifact_seq, nonartvars>>

InitArt ==
    /\ art_users = Empty
    /\ art_user_seq = 0
    /\ art_current_user = None
    /\ art_response = NoArtResponse
    /\ artifacts = Empty
    /\ artifact_seq = 0

NextArt ==
    \/ RegisterUser
    \/ LoginUser
    \/ Reset
    \/ CreateArtifact
    \/ GetArtifactById
    \/ GetArtifactChildren
    \/ ArtSendResponse

\* -------------------------------------------------------------- autograder
\* instructor/homework/hw3/autograder/run_tests.py: a script that checks
\* the submission's files and models, starts the server, drives a fixed
\* sequence of requests, and writes the report.  What the submission and
\* its server answer is the environment's choice.

\* (add_test_result that forgets the check's max_score)
add_test_result_score_only(R, name, max_score, score) ==
    [tests |-> Append(R.tests, [name |-> name, max_score |-> max_score,
                               score |-> score]),
     score |-> R.score + score,
     max_score |-> R.max_score]

\* add_test_result (the output text is left out)
add_test_result(R, name, max_score, score) ==
    [tests |-> Append(R.tests, [name |-> name, max_score |-> max_score,
                               score |-> score]),
     score |-> R.score + score,
     max_score |-> R.max_score + max_score]

\* The API checks in the order of the script: the statement, the check's
\* name, its max_score, whether it needs author_id or book_id, and the
\* statement after it.
ApiChecks ==
    << [pc |-> "post_authors", name |-> "POST /authors/", max_score |-> 5,
        needs |-> "nothing"],
       [pc |-> "get_authors", name |-> "GET /authors/", max_score |-> 5,
        needs |-> "nothing"],
       [pc |-> "get_author", name |-> "GET /authors/{id}", max_score |-> 5,
        needs |-> "author_id"],
       [pc |-> "patch_author", name |-> "PATCH /authors/{id}", max_score |-> 5,
        needs |-> "author_id"],
       [pc |-> "post_books", name |-> "POST /books/", max_score |-> 8,
        needs |-> "author_id"],
       [pc |-> "get_books", name |-> "GET /books/", max_score |-> 7,
        needs |-> "nothing"],
       [pc |-> "get_book", name |-> "GET /books/{id}", max_score |-> 5,
        needs |-> "book_id"],
       [pc |-> "get_books_by_author", name |-> "GET /books/by-author/{id}",
        max_score |-> 5, needs |-> "author_id"],
       [pc |-> "patch_book", name |-> "PATCH /books/{id}", max_score |-> 5,
        needs |-> "book_id"],
       [pc |-> "delete_book", name |-> "DELETE /books/{id}", max_score |-> 5,
        needs |-> "book_id"],
       [pc |-> "delete_author", name |-> "DELETE /authors/{id}",
        max_score |-> 5, needs |-> "author_id"],
       [pc |-> "reset", name |-> "DELETE /reset/", max_score |-> 10,
        needs |-> "nothing"] >>

ApiPcs == {ApiChecks[i].pc : i \in DOMAIN ApiChecks}
CheckAt(at) == CHOOSE i \in DOMAIN ApiChecks : ApiChecks[i].pc = at
PcAfter(at) ==
    IF CheckAt(at) = Len(ApiChecks) THEN "clean_up"
    ELSE ApiChecks[CheckAt(at) + 1].pc

\* Does the check at this statement send its request?  Otherwise it is
\* recorded as skipped.
Sends(at) ==
    LET needs == ApiChecks[CheckAt(at)].needs
    IN  /\ needs = "author_id" => ag_author_id # None
        /\ needs = "book_id" => ag_book_id # None

\* The ids a response's json().get("id") can yield: none, or an id.
ResponseIds == Opt({1})

\* log_file = open(LOG_PATH, "ab"): LOG_PATH lies in SOURCE_DIR, and the
\* open raises out of the script when that directory is missing.
OpenLogFile ==
    /\ ag_pc = "open_log"
    /\ \E source_dir_exists \in BOOLEAN :
          ag_pc' = IF source_dir_exists THEN "file_structure" ELSE "crashed"
    /\ UNCHANGED <<results, ag_author_id, ag_book_id, server_process, results_json,
                   nonagvars>>

\* Test 1: Check file structure
FileStructure ==
    /\ ag_pc = "file_structure"
    /\ \E score \in {0, 5} :
          results' = add_test_result(results, "File Structure", 5, score)
    /\ ag_pc' = "import_models"
    /\ UNCHANGED <<ag_author_id, ag_book_id, server_process, results_json,
                   nonagvars>>

\* The three entries of the "except" branch of Test 2
ImportFailed(R) ==
    add_test_result(
        add_test_result(
            add_test_result(R, "Model Imports", 10, 0),
            "Author Model Fields", 5, 0),
        "Book Model Fields", 5, 0)

\* Test 2: Import models.  The import raises, or it succeeds and the two
\* field checks pass or fail, or reading __annotations__ raises after the
\* import was credited.
ModelImports ==
    /\ ag_pc = "import_models"
    /\ \/ results' = ImportFailed(results)
       \/ \E a, b \in {0, 5} :
             results' =
                add_test_result(
                    add_test_result(
                        add_test_result(results, "Model Imports", 10, 10),
                        "Author Model Fields", 5, a),
                    "Book Model Fields", 5, b)
       \/ results' =
             ImportFailed(add_test_result(results, "Model Imports", 10, 10))
       \/ \E a \in {0, 5} :
             results' =
                ImportFailed(
                    add_test_result(
                        add_test_result(results, "Model Imports", 10, 10),
                        "Author Model Fields", 5, a))
    /\ ag_pc' = "start_server"
    /\ UNCHANGED <<ag_author_id, ag_book_id, server_process, results_json,
                   nonagvars>>

\* start_fastapi_server and the "Server Startup" entry: Popen raises and
\* the function returns None, or the process is started.
StartServer ==
    /\ ag_pc = "start_server"
    /\ \/ /\ server_process' = "none"
          /\ results' = add_test_result(results, "Server Startup", 5, 0)
          /\ ag_pc' = "skip_api"
       \/ /\ server_process' = "running"
          /\ results' = add_test_result(results, "Server Startup", 5, 5)
          /\ ag_pc' = ApiChecks[1].pc
    /\ UNCHANGED <<ag_author_id, ag_book_id, results_json, nonagvars>>

\* One API check: skipped for want of an id, or sent and scored by the
\* response's status.  The two POST checks take the id from the response.
ApiCheck ==
    /\ ag_pc \in ApiPcs
    /\ LET check == ApiChecks[CheckAt(ag_pc)]
       IN  IF ~Sends(ag_pc)
           THEN /\ results' = add_test_result(results, check.name,
                                              check.max_score, 0)
                /\ ag_book_id' = IF ag_pc = "post_books" THEN None ELSE ag_book_id
                /\ UNCHANGED ag_author_id
           ELSE \/ /\ results' = add_test_result(results, check.name,
                                                 check.max_score, 0)
                   /\ ag_author_id' = IF ag_pc = "post_authors" THEN None
                                   ELSE ag_author_id
                   /\ ag_book_id' = IF ag_pc = "post_books" THEN None
                                 ELSE ag_book_id
                \/ /\ results' = add_test_result(results, check.name,
                                                 check.max_score,
                                                 check.max_score)
                   /\ \E id \in ResponseIds :
                         /\ ag_author_id' = IF ag_pc = "post_authors" THEN id
                                         ELSE ag_author_id
                         /\ ag_book_id' = IF ag_pc = "post_books" THEN id
                                       ELSE ag_book_id
    /\ ag_pc' = PcAfter(ag_pc)
    /\ UNCHANGED <<server_process, results_json, nonagvars>>

\* (the API checks without their "except Exception": the exception leaves
\* the script)
ApiExceptionUncaught ==
    /\ ag_pc \in ApiPcs
    /\ Sends(ag_pc)
    /\ ag_pc' = "crashed"
    /\ UNCHANGED <<results, ag_author_id, ag_book_id, server_process, results_json,
                   nonagvars>>

\* A request or the parsing of its response raises: "except Exception".
ApiException ==
    /\ ag_pc \in ApiPcs
    /\ Sends(ag_pc)
    /\ results' = add_test_result(results, "API Tests", 20, 0)
    /\ ag_pc' = "clean_up"
    /\ UNCHANGED <<ag_author_id, ag_book_id, server_process, results_json,
                   nonagvars>>

\* The "else" of "if BASE_URL"
SkipApi ==
    /\ ag_pc = "skip_api"
    /\ results' = add_test_result(results, "API Tests - Skipped", 75, 0)
    /\ ag_pc' = "clean_up"
    /\ UNCHANGED <<ag_author_id, ag_book_id, server_process, results_json,
                   nonagvars>>

\* "Clean up": terminate and wait for the server, if one was started.
CleanUp ==
    /\ ag_pc = "clean_up"
    /\ server_process' = IF server_process = "running" THEN "terminated"
                         ELSE server_process
    /\ ag_pc' = "write_results"
    /\ UNCHANGED <<results, ag_author_id, ag_book_id, results_json, nonagvars>>

\* "Write results": json.dump(results, f)
WriteResults ==
    /\ ag_pc = "write_results"
    /\ results_json' = Some(results)
    /\ ag_pc' = "done"
    /\ UNCHANGED <<results, ag_author_id, ag_book_id, server_process, nonagvars>>

InitAutograder ==
    /\ ag_pc = "open_log"
    /\ results = [tests |-> <<>>, score |-> 0, max_score |-> 0]
    /\ ag_author_id = None
    /\ ag_book_id = None
    /\ server_process = "none"
    /\ results_json = None

NextAutograder ==
    \/ OpenLogFile
    \/ FileStructure
    \/ ModelImports
    \/ StartServer
    \/ ApiCheck
    \/ ApiException
    \/ SkipApi
    \/ CleanUp
    \/ WriteResults

\* --------------------------------------------------------------- item store
\* instructor/lectures/06-nested-models-datatypes+/12_response_status_code:
\* create_item and read_item are plain "def" handlers, which the framework
\* runs on the threads of its pool, so two of them can be between their
\* statements at once.
Threads == {1, 2}
ItemTypes == {"pen", "cup"}
ItemIds == 1..MaxItems

NoItemResponse == [route |-> "none", status |-> 0, args |-> None, body |-> None]

\* create_item, first statement: item_id = len(items) + 1
next_item_id(I) == Cardinality(DOMAIN I) + 1

\* create_item, second statement: items[item_id] = item
store_item(I, item_id, item) == Put(I, item_id, item)

\* read_item
read_item(I, item_id) ==
    IF item_id \notin DOMAIN I
    THEN [status |-> 404, body |-> "Item not found"]
    ELSE [status |-> 204, body |-> I[item_id]]

\* A thread takes a POST /items/ and runs the first statement.
CreateItemLen(t) ==
    /\ item_pc[t] = None
    /\ Len(created_items) + Cardinality({u \in Threads : item_pc[u] # None})
         < MaxItems
    /\ \E item \in ItemTypes :
          item_pc' = [item_pc EXCEPT
                        ![t] = Some([item_id |-> next_item_id(items),
                                     item |-> item])]
    /\ UNCHANGED <<items, item_response, created_items, nonitemvars>>

\* The thread runs the second statement and returns the item (201).
CreateItemStore(t) ==
    /\ item_pc[t] # None
    /\ item_response.route = "none"
    /\ items' = store_item(items, Val(item_pc[t]).item_id, Val(item_pc[t]).item)
    /\ item_response' = [route |-> "create_item", status |-> 201,
                         args |-> Val(item_pc[t]).item_id,
                         body |-> Val(item_pc[t]).item]
    /\ created_items' = Append(created_items, Val(item_pc[t]).item)
    /\ item_pc' = [item_pc EXCEPT ![t] = None]
    /\ UNCHANGED nonitemvars

ReadItem ==
    /\ item_response.route = "none"
    /\ \E item_id \in ItemIds :
          LET r == read_item(items, item_id)
          IN  item_response' = [route |-> "read_item", status |-> r.status,
                                args |-> item_id, body |-> r.body]
    /\ UNCHANGED <<items, item_pc, created_items, nonitemvars>>

ItemSendResponse ==
    /\ item_response.route # "none"
    /\ item_response' = NoItemResponse
    /\ UNCHANGED <<items, item_pc, created_items, nonitemvars>>

InitItems ==
    /\ items = Empty
    /\ item_pc = [t \in Threads |-> None]
    /\ item_response = NoItemResponse
    /\ created_items = <<>>

NextItems ==
    \/ \E t \in Threads : CreateItemLen(t)
    \/ \E t \in Threads : CreateItemStore(t)
    \/ ReadItem
    \/ ItemSendResponse

\* ------------------------------------------------------------ click counter
\* instructor/lectures/17-frontend-backend-integration/02-example: both
\* handlers are "async def" without an await, so each runs to its end on the
\* event loop before another request is taken.
Browsers == {1, 2}

NoClickResponse == [route |-> "none", browser |-> 0, body |-> None]

\* (handle_click answering with the count it found)
handle_click_stale(count) == [count |-> count + 1, body |-> count]

\* GET /click: click_count += 1; the response shows click_count
handle_click(count) == [count |-> count + 1, body |-> count + 1]

\* GET /: the page with initial_count = click_count
serve_html(count) == [count |-> count, body |-> count]

ServeHtml(b) ==
    /\ click_response.route = "none"
    /\ LET r == serve_html(click_count)
       IN  /\ click_count' = r.count
           /\ click_response' = [route |-> "/", browser |-> b,
                                 body |-> Some(r.body)]
    /\ UNCHANGED <<displayed, shown_counts, nonclickvars>>

HandleClick(b) ==
    /\ click_response.route = "none"
    /\ click_count < MaxClicks
    /\ LET r == handle_click(click_count)
       IN  /\ click_count' = r.count
           /\ click_response' = [route |-> "/click", browser |-> b,
                                 body |-> Some(r.body)]
           /\ shown_counts' = Append(shown_counts, r.body)
    /\ UNCHANGED <<displayed, nonclickvars>>

\* The response reaches its browser, which shows the count it carries.
ClickSendResponse ==
    /\ click_response.route # "none"
    /\ displayed' = [displayed EXCEPT
                       ![click_response.browser] = click_response.body]
    /\ click_response' = NoClickResponse
    /\ UNCHANGED <<click_count, shown_counts, nonclickvars>>

InitClick ==
    /\ click_count = 0
    /\ displayed = [b \in Browsers |-> None]
    /\ click_response = NoClickResponse
    /\ shown_counts = <<>>

NextClick ==
    \/ \E b \in Browsers : ServeHtml(b)
    \/ \E b \in Browsers : HandleClick(b)
    \/ ClickSendResponse

Init ==
    /\ InitHw2 /\ InitJwt /\ InitCookie /\ InitHw3 /\ InitArt
    /\ InitAutograder /\ InitItems /\ InitClick

SpecHw2 == Init /\ [][NextHw2]_vars

SpecHw2Conc == Init /\ [][NextHw2Conc]_vars

SpecJwt == Init /\ [][NextJwt]_vars

SpecJwtClient == Init /\ [][NextJwtClient]_vars

SpecCookie == Init /\ [][NextCookie]_vars

SpecHw3 == Init /\ [][NextHw3]_vars

SpecArt == Init /\ [][NextArt]_vars

SpecAutograder == Init /\ [][NextAutograder]_vars

SpecItems == Init /\ [][NextItems]_vars

SpecClick == Init /\ [][NextClick]_vars

\* The script is one sequential process: it takes its next step whenever it
\* has one.
SpecAutograderRuns == SpecAutograder /\ WF_vars(NextAutograder)

\* ================================================== properties of the hw2 API
\* A step that serves a request of SpecHw2: the handler named op has run and
\* its response is recorded.
Served(op) == response.op = "none" /\ response'.op = op

\* C1: in every reachable state, under any interleaving of the handlers,
\* every stored book's author_id is the id of a stored author; a
\* delete_author of an author that still has books leaves no book pointing
\* at a missing author.
C1_BookAuthorStored ==
    \A b \in DOMAIN books : books[b].author_id \in DOMAIN authors

\* A worker has read author a for delete_author and has not committed yet,
\* while a stored book references a.
C1_Witness ==
    \E p \in Procs, b \in DOMAIN books :
        /\ pc[p].op = "delete_author"
        /\ pc[p].id = Some(books[b].author_id)
        /\ books[b].author_id \in DOMAIN authors

\* C2: a POST /books/ whose author_id is not the id of a stored author is
\* answered 404 "Author not found", and the authors and books are what they
\* were before the request.
C2_UnknownAuthorRejected ==
    [][(/\ Served("create_book")
        /\ ~(/\ response'.args.author_id # None
             /\ Val(response'.args.author_id) \in DOMAIN authors))
       => (/\ response'.status = 404
           /\ response'.body = "Author not found"
           /\ authors' = authors
           /\ books' = books)]_vars

C2_Witness ==
    /\ response.op = "create_book"
    /\ response.status = 404
    /\ response.body = "Author not found"
    /\ DOMAIN authors # {}
    /\ Val(response.args.author_id) \notin DOMAIN authors

\* C3: after a create_author that succeeded with id i, a get_author(i) made
\* before any update_author(i), delete_author(i) or reset_database returns
\* the author with the name and the email that were submitted.
C3_CreateThenGet ==
    [][\A i \in AuthorIds :
          (/\ Served("get_author")
           /\ response'.id = Some(i)
           /\ IsCreated(history[i]))
          => (/\ response'.status = 200
              /\ response'.body.id = i
              /\ response'.body.name = history[i][2]
              /\ response'.body.email = history[i][3])]_vars

C3_Witness ==
    /\ response.op = "get_author"
    /\ response.status = 200
    /\ IsCreated(history[Val(response.id)])
    /\ Cardinality(DOMAIN authors) = 2
    /\ DOMAIN books # {}

\* C4 as stated: once delete_author(i) has succeeded, author i is never
\* stored again and every later get_author(i) answers 404, whatever requests
\* come in between.  (history[i] stays Deleted up to the first step that
\* stores i again, so the first step to break the statement breaks this.)
C4_DeletedForever ==
    [][\A i \in AuthorIds :
          history[i] = Deleted
          => (/\ i \notin DOMAIN authors'
              /\ (Served("get_author") /\ response'.id = Some(i))
                 => response'.status = 404)]_vars

\* C4, amended: once delete_author(i) has succeeded, author i is not stored
\* and every get_author(i) answers 404 for as long as no create_author has
\* succeeded with id i; no other request stores author i again.
C4_DeletedUntilCreated ==
    [][\A i \in AuthorIds :
          /\ history'[i] = Deleted => i \notin DOMAIN authors'
          /\ history[i] = Deleted
             => (/\ i \notin DOMAIN authors
                 /\ (Served("get_author") /\ response'.id = Some(i))
                    => response'.status = 404
                 /\ i \in DOMAIN authors'
                    => (/\ Served("create_author")
                        /\ response'.status = 200
                        /\ response'.body.id = i))]_vars

C4_Witness ==
    \E i \in AuthorIds :
        /\ history[i] = Deleted
        /\ response.op = "get_author"
        /\ response.id = Some(i)
        /\ response.status = 404
        /\ DOMAIN authors # {}

\* C5: when DELETE /reset/ completes, the book table and the author table
\* are empty, and the response reports books_deleted, authors_deleted and
\* total_deleted, the sum of the two.
C5_ResetEmpties ==
    [][Served("reset_database")
       => (/\ response'.status = 200
           /\ authors' = Empty
           /\ books' = Empty
           /\ DOMAIN response'.body
                = {"books_deleted", "authors_deleted", "total_deleted"}
           /\ response'.body.total_deleted
                = response'.body.books_deleted + response'.body.authors_deleted)]_vars

C5_Witness ==
    /\ response.op = "reset_database"
    /\ response.body.books_deleted = 1
    /\ response.body.authors_deleted = 2
    /\ response.body.total_deleted = 3
    /\ authors = Empty
    /\ books = Empty

\* C6: in every reachable state, concurrent requests included, no two stored
\* authors have the same email; and from every such state a create_author or
\* an update_author that would give a stored email to a second author fails
\* and leaves the stored authors as they are.
C6_EmailsUnique ==
    /\ \A i, j \in DOMAIN authors :
          i # j => authors[i].email # authors[j].email
    /\ \A body \in AuthorPosts :
          (\E j \in DOMAIN authors : authors[j].email = Val(body.email))
          => LET out == create_author(authors, books, author_seq, book_seq, body)
             IN  out.status = 500 /\ out.authors = authors
    /\ \A i \in DOMAIN authors, body \in AuthorUpdates :
          (/\ body.email # None
           /\ \E j \in DOMAIN authors \ {i} : authors[j].email = Val(body.email))
          => LET out == update_author_commit(authors, books, author_seq,
                                             book_seq, i, body)
             IN  out.status = 500 /\ out.authors = authors

\* Two authors are stored and each worker has read one of them for an update.
C6_Witness ==
    /\ Cardinality(DOMAIN authors) = 2
    /\ pc[1].op = "update_author"
    /\ pc[2].op = "update_author"
    /\ pc[1].id # pc[2].id

\* C7: get, update and delete of an author, or of a book, by an id that is
\* not stored answer 404 and leave both tables unchanged.
C7_MissingId404 ==
    [][(\/ \E op \in {"get_author", "update_author", "delete_author"} :
              Served(op) /\ Val(response'.id) \notin DOMAIN authors
        \/ \E op \in {"get_book", "update_book", "delete_book"} :
              Served(op) /\ Val(response'.id) \notin DOMAIN books)
       => (/\ response'.status = 404
           /\ authors' = authors
           /\ books' = books)]_vars

\* A PATCH of a book that is not stored, naming an author that is.
C7_Witness ==
    /\ response.op = "update_book"
    /\ response.status = 404
    /\ Val(response.id) \notin DOMAIN books
    /\ response.args.author_id # None
    /\ Val(response.args.author_id) \in DOMAIN authors

\* The fields a PATCH body supplies, and a body that supplies some of the
\* fields but not all.
Supplied(body, fields) == {f \in fields : body[f] # None}
Partial(body, fields) ==
    Supplied(body, fields) # {} /\ Supplied(body, fields) # fields

AuthorFields == {"name", "email"}
BookFields == {"title", "year", "author_id"}

\* Row id of table T becomes the old row with the supplied fields of body
\* set, its id is kept, and every other row of T is what it was.
Patched(T, T2, id, body, fields) ==
    /\ DOMAIN T2 = DOMAIN T
    /\ \A f \in fields :
          T2[id][f] = IF body[f] # None THEN Val(body[f]) ELSE T[id][f]
    /\ \A j \in DOMAIN T \ {id} : T2[j] = T[j]

PatchedAuthor ==
    /\ response'.status = 200
    /\ response'.body.id = Val(response'.id)
    /\ Patched(authors, authors', Val(response'.id), response'.args, AuthorFields)
    /\ books' = books

PatchedBook ==
    /\ response'.status = 200
    /\ response'.body.id = Val(response'.id)
    /\ Patched(books, books', Val(response'.id), response'.args, BookFields)
    /\ authors' = authors

PartialAuthorPatch ==
    /\ Served("update_author")
    /\ Val(response'.id) \in DOMAIN authors
    /\ Partial(response'.args, AuthorFields)

PartialBookPatch ==
    /\ Served("update_book")
    /\ Val(response'.id) \in DOMAIN books
    /\ Partial(response'.args, BookFields)

\* C8 as stated: a PATCH of a stored author, or of a stored book, that
\* supplies only some of the fields is answered 200, sets exactly the
\* supplied fields, and leaves the row's other fields, its id and every
\* other row unchanged.
C8_PartialPatchSucceeds ==
    [][/\ PartialAuthorPatch => PatchedAuthor
       /\ PartialBookPatch => PatchedBook]_vars

\* C8, amended: such a PATCH is answered 200 with exactly that effect,
\* unless it supplies an email that another author holds (the commit fails,
\* 500) or an author_id that names no stored author (404); in those two
\* cases no row changes.
C8_PartialPatch ==
    [][/\ PartialAuthorPatch
          => IF /\ response'.args.email # None
                /\ \E j \in DOMAIN authors \ {Val(response'.id)} :
                      authors[j].email = Val(response'.args.email)
             THEN /\ response'.status = 500
                  /\ authors' = authors
                  /\ books' = books
             ELSE PatchedAuthor
       /\ PartialBookPatch
          => IF /\ response'.args.author_id # None
                /\ Val(response'.args.author_id) \notin DOMAIN authors
             THEN /\ response'.status = 404
                  /\ authors' = authors
                  /\ books' = books
             ELSE PatchedBook]_vars

\* A PATCH that supplied only the name has been answered 200.
C8_Witness ==
    /\ response.op = "update_author"
    /\ response.status = 200
    /\ response.args.name # None
    /\ response.args.email = None
    /\ Cardinality(DOMAIN authors) = 2
    /\ authors[Val(response.id)].name = Val(response.args.name)

\* ================================================= properties of the JWT demo
\* A step that serves a request of SpecJwt.
JwtServed(route) == jwt_response.route = "none" /\ jwt_response'.route = route

\* C9: a request to a route that depends on get_current_user is answered 401
\* whenever the bearer token is missing, is malformed or has an invalid
\* signature, has expired (the time is past its exp claim), carries no sub
\* claim, or names a user that is not in the store; it is accepted only when
\* none of these holds.
C9_ProtectedRoute ==
    [][JwtServed("read_users_me")
       => LET authorization == jwt_response'.args
              token == Val(authorization)
              rejected ==
                  \/ authorization = None
                  \/ token.form # "jwt"
                  \/ token.key # SECRET_KEY
                  \/ token.exp # None /\ now > Val(token.exp)
                  \/ token.sub = None
                  \/ Val(token.sub) \notin DOMAIN fake_users_db
          IN  /\ rejected => jwt_response'.status = 401
              /\ jwt_response'.status = 200 => ~rejected]_vars

\* A token with a good signature and a live exp that names a user who is
\* not in the store has been answered 401.
C9_Witness ==
    /\ jwt_response.route = "read_users_me"
    /\ jwt_response.status = 401
    /\ jwt_response.args # None
    /\ LET token == Val(jwt_response.args)
       IN  /\ token.form = "jwt"
           /\ token.key = SECRET_KEY
           /\ token.exp # None
           /\ Val(token.exp) >= now
           /\ token.sub # None
           /\ Val(token.sub) \notin DOMAIN fake_users_db
    /\ now > 0

\* C10: authenticate_user returns the user exactly when the username is in
\* the store and the password is the one whose hash the store holds, and
\* nothing otherwise; POST /token answers 401 and issues no token exactly
\* when authenticate_user returns nothing.
C10_Login ==
    [][JwtServed("login_for_access_token")
       => LET username == jwt_response'.args.username
              password == jwt_response'.args.password
              verifies ==
                  /\ username \in DOMAIN fake_users_db
                  /\ \E salt \in Salts :
                        fake_users_db[username].hashed_password
                            = get_password_hash(password, salt)
              user == authenticate_user(fake_users_db, username, password)
          IN  /\ user = IF verifies THEN Some(fake_users_db[username]) ELSE None
              /\ user = None
                 => /\ jwt_response'.status = 401
                    /\ jwt_response'.body = "Incorrect username or password"
              /\ user # None
                 => /\ jwt_response'.status = 200
                    /\ jwt_response'.body.token_type = "bearer"
                    /\ jwt_response'.body.access_token.form = "jwt"
                    /\ jwt_response'.body.access_token.sub = Some(username)]_vars

\* A stored user's login with the wrong password has been answered 401.
C10_Witness ==
    /\ jwt_response.route = "login_for_access_token"
    /\ jwt_response.status = 401
    /\ jwt_response.args.username \in DOMAIN fake_users_db
    /\ Cardinality(DOMAIN fake_users_db) = 2

\* C11: a token issued by POST /token for user u has u's username as its
\* subject and the issue time plus ACCESS_TOKEN_EXPIRE_MINUTES as its expiry;
\* presented to GET /users/me before it expires, while u is stored and not
\* disabled, it is answered 200 with u's own username and profile.
C11_TokenRoundTrip ==
    [][/\ (JwtServed("login_for_access_token") /\ jwt_response'.status = 200)
          => client_token'
               = Some(Token(SECRET_KEY, Some(jwt_response'.args.username),
                            Some(now + ACCESS_TOKEN_EXPIRE_MINUTES)))
       /\ (JwtServed("read_users_me") /\ client_token # None)
          => LET token == Val(client_token)
                 u == Val(token.sub)
             IN  (/\ now <= Val(token.exp)
                  /\ u \in DOMAIN fake_users_db
                  /\ ~fake_users_db[u].disabled)
                 => (/\ jwt_response'.status = 200
                     /\ jwt_response'.body.username = u
                     /\ jwt_response'.body.email = fake_users_db[u].email
                     /\ jwt_response'.body.full_name
                          = fake_users_db[u].full_name)]_vars

\* The client's token has been answered 200 some time after it was issued,
\* with two users in the store.
C11_Witness ==
    /\ jwt_response.route = "read_users_me"
    /\ jwt_response.status = 200
    /\ client_token # None
    /\ jwt_response.args = client_token
    /\ now + ACCESS_TOKEN_EXPIRE_MINUTES > Val(Val(client_token).exp)
    /\ Cardinality(DOMAIN fake_users_db) = 2

\* C14, amended: once the user a token was issued for has been deleted from
\* the store, every use of the still unexpired token on a protected route is
\* answered 401 while no user of that name is stored; when a user of that
\* name is stored again, the old token authenticates as that username
\* again: 200 with that username, or 400 if the new account is disabled.
C14_RevokedByDeletion ==
    [][(/\ JwtServed("read_users_me")
        /\ client_token # None
        /\ deleted_since
        /\ now <= Val(Val(client_token).exp))
       => LET u == Val(Val(client_token).sub)
          IN  IF u \notin DOMAIN fake_users_db
              THEN jwt_response'.status = 401
              ELSE IF fake_users_db[u].disabled
                   THEN jwt_response'.status = 400
                   ELSE /\ jwt_response'.status = 200
                        /\ jwt_response'.body.username = u]_vars

\* The token of a user who was deleted after it was issued, and created
\* again since, has been answered 200.
C14_Witness ==
    /\ jwt_response.route = "read_users_me"
    /\ jwt_response.status = 200
    /\ client_token # None
    /\ deleted_since
    /\ jwt_response.body.username = Val(Val(client_token).sub)

\* C14 as stated: with the user stored again, the old token is answered 200
\* as that username, whatever the re-created account looks like.
C14_AcceptedWhenRecreated ==
    [][(/\ JwtServed("read_users_me")
        /\ client_token # None
        /\ deleted_since
        /\ now <= Val(Val(client_token).exp))
       => LET u == Val(Val(client_token).sub)
          IN  IF u \notin DOMAIN fake_users_db
              THEN jwt_response'.status = 401
              ELSE /\ jwt_response'.status = 200
                   /\ jwt_response'.body.username = u]_vars

\* The protected routes, and what each answers.
ProtectedRoutes == {"read_users_me", "read_own_items", "get_extended_profile"}
RouteResult(route, db, t, authorization) ==
    CASE route = "read_users_me" -> read_users_me(db, t, authorization)
      [] route = "read_own_items" -> read_own_items(db, t, authorization)
      [] route = "get_extended_profile"
            -> get_extended_profile(db, t, authorization)

\* The stores that differ from db in hashed_password values only.
Rehashed(db) ==
    {[u \in DOMAIN db |-> [db[u] EXCEPT !.hashed_password = h[u]]] :
        h \in [DOMAIN db -> Hashes]}

\* C12: no response of a route carries a hashed_password; the value that
\* get_current_active_user hands to a route is a User, without that field;
\* and a store that differs in hashed_password values only gives the same
\* response to every authenticated request.
C12_HashedPasswordStaysInside ==
    [][/\ \A route \in ProtectedRoutes :
            JwtServed(route)
            => LET a == jwt_response'.args
                   handed == get_current_active_user(fake_users_db, now, a)
               IN  /\ handed.status = 200
                      => DOMAIN handed.value
                           = {"username", "email", "full_name", "disabled"}
                   /\ \A db2 \in Rehashed(fake_users_db) :
                         RouteResult(route, db2, now, a)
                           = Dep(jwt_response'.status, jwt_response'.body)
       /\ (JwtServed("read_users_me") /\ jwt_response'.status = 200)
          => "hashed_password" \notin DOMAIN jwt_response'.body
       /\ (JwtServed("read_own_items") /\ jwt_response'.status = 200)
          => \A i \in DOMAIN jwt_response'.body :
                "hashed_password" \notin DOMAIN jwt_response'.body[i]
       /\ (JwtServed("get_extended_profile") /\ jwt_response'.status = 200)
          => /\ DOMAIN jwt_response'.body
                  = {"basic_info", "account_status", "preferences"}
             /\ \A part \in DOMAIN jwt_response'.body :
                   "hashed_password" \notin DOMAIN jwt_response'.body[part]
       /\ JwtServed("get_public_info")
          => "hashed_password" \notin DOMAIN jwt_response'.body
       /\ (JwtServed("login_for_access_token") /\ jwt_response'.status = 200)
          => /\ DOMAIN jwt_response'.body = {"access_token", "token_type"}
             /\ DOMAIN jwt_response'.body.access_token
                  = {"form", "key", "sub", "exp"}]_vars

\* An extended profile has been returned for a user whose stored hash is no
\* longer the one the store started with.
C12_Witness ==
    /\ jwt_response.route = "get_extended_profile"
    /\ jwt_response.status = 200
    /\ LET u == jwt_response.body.basic_info.username
       IN  /\ u \in DOMAIN fake_users_db
           /\ fake_users_db[u].hashed_password
                # InitialUsers["johndoe"].hashed_password
    /\ Cardinality(DOMAIN fake_users_db) = 2

\* C13 as stated: a route that uses get_current_user_optional gets the
\* current user when the token is valid, and gets None, with no error
\* raised, when there is no token or the token is invalid.
C13_OptionalNeverRaises ==
    [][JwtServed("get_current_user_optional")
       => LET a == jwt_response'.args
              valid == /\ a # None
                       /\ get_current_user(fake_users_db, now, a).status = 200
          IN  /\ jwt_response'.status = 200
              /\ jwt_response'.body
                   = IF valid
                     THEN Some(get_current_user(fake_users_db, now, a).value)
                     ELSE None]_vars

\* C15: create_user returns True and adds the user only if the data names a
\* username that is not stored, and otherwise returns False and changes
\* nothing; update_user and delete_user return True and change only the
\* named entry if the username is stored, and otherwise return False and
\* change nothing; user_exists(u) holds exactly for the usernames that
\* get_all_usernames lists.
C15_StoreOperations ==
    [][/\ JwtServed("create_user")
          => LET d == jwt_response'.args
                 ok == d.username # None
                       /\ Val(d.username) \notin DOMAIN fake_users_db
             IN  /\ jwt_response'.body = ok
                 /\ IF ok
                    THEN /\ DOMAIN fake_users_db'
                              = DOMAIN fake_users_db \cup {Val(d.username)}
                         /\ fake_users_db'[Val(d.username)].hashed_password
                              = d.hashed_password
                         /\ fake_users_db'[Val(d.username)].disabled = d.disabled
                         /\ \A v \in DOMAIN fake_users_db :
                               fake_users_db'[v] = fake_users_db[v]
                    ELSE fake_users_db' = fake_users_db
       /\ JwtServed("update_user")
          => LET u == jwt_response'.args[1]
                 d == jwt_response'.args[2]
                 stored == u \in DOMAIN fake_users_db
             IN  /\ jwt_response'.body = stored
                 /\ IF stored
                    THEN /\ DOMAIN fake_users_db' = DOMAIN fake_users_db
                         /\ \A v \in DOMAIN fake_users_db \ {u} :
                               fake_users_db'[v] = fake_users_db[v]
                         /\ d.disabled # None
                            => fake_users_db'[u].disabled = Val(d.disabled)
                         /\ d.hashed_password # None
                            => fake_users_db'[u].hashed_password
                                 = Val(d.hashed_password)
                    ELSE fake_users_db' = fake_users_db
       /\ JwtServed("delete_user")
          => LET u == jwt_response'.args
                 stored == u \in DOMAIN fake_users_db
             IN  /\ jwt_response'.body = stored
                 /\ IF stored
                    THEN /\ DOMAIN fake_users_db' = DOMAIN fake_users_db \ {u}
                         /\ \A v \in DOMAIN fake_users_db \ {u} :
                               fake_users_db'[v] = fake_users_db[v]
                    ELSE fake_users_db' = fake_users_db
       /\ \A u \in Usernames :
             user_exists(fake_users_db', u)
             <=> \E i \in 1..Len(get_all_usernames(fake_users_db')) :
                    get_all_usernames(fake_users_db')[i] = u]_vars

\* create_user has refused a username that is already stored.
C15_Witness ==
    /\ jwt_response.route = "create_user"
    /\ jwt_response.body = FALSE
    /\ jwt_response.args.username # None
    /\ Val(jwt_response.args.username) \in DOMAIN fake_users_db
    /\ Cardinality(DOMAIN fake_users_db) = 2

\* ============================================== properties of the cookie demo
CookieServed(route) ==
    cookie_response.route = "none" /\ cookie_response'.route = route

\* C16: GET /preferences returns the stored preferences when and only when
\* the request's session_id cookie is a key of sessions, that is, was issued
\* by an earlier login; with no cookie or an unknown id it answers 401
\* "Invalid session ID" and leaves sessions unchanged.  An issued session_id
\* stays valid whatever logins follow.
C16_SessionCookie ==
    [][/\ CookieServed("get_preferences")
          => LET c == cookie_response'.args
                 known == c # None /\ Val(c) \in issued_ids
             IN  /\ known <=> (c # None /\ Val(c) \in DOMAIN sessions)
                 /\ sessions' = sessions
                 /\ IF known
                    THEN /\ cookie_response'.status = 200
                         /\ cookie_response'.body = sessions[Val(c)]
                    ELSE /\ cookie_response'.status = 401
                         /\ cookie_response'.body = "Invalid session ID"
       /\ \A id \in issued_ids :
             /\ id \in issued_ids'
             /\ id \in DOMAIN sessions'
             /\ sessions'[id] = sessions[id]
       /\ CookieServed("login")
          => /\ cookie_response'.set_cookie \notin {Some(id) : id \in issued_ids}
             /\ Val(cookie_response'.set_cookie) \in DOMAIN sessions']_vars

\* The first session's cookie has been answered 200 after two more logins.
C16_Witness ==
    /\ cookie_response.route = "get_preferences"
    /\ cookie_response.status = 200
    /\ Cardinality(issued_ids) >= 3
    /\ cookie_response.body = UserPreferences("dark", TRUE)

\* ======================================================= properties of hw3
Hw3Served(route) == hw3_response.route = "none" /\ hw3_response'.route = route

\* The user the session of the client of the request just served
\* identifies, if any.
Requester == http_session[hw3_response'.client]

EmailStored(email) == \E i \in DOMAIN hw3_users : hw3_users[i].email = email

ArtServed(route) == art_response.route = "none" /\ art_response'.route = route

\* C20: POST /api/user/login with a username/password pair that matches no
\* stored user is answered 404 "Unknown username or password" and leaves
\* current_user unchanged; with a matching pair it sets current_user to that
\* user and returns it.
C20_Login ==
    [][ArtServed("login")
       => LET reg_user == find_user(art_users, art_response'.args)
          IN  IF reg_user = None
              THEN /\ art_response'.status = 404
                   /\ art_response'.body.detail = "Unknown username or password"
                   /\ art_current_user' = art_current_user
              ELSE /\ art_response'.status = 200
                   /\ art_response'.body = Val(reg_user)
                   /\ art_current_user' = reg_user]_vars

\* Each stored artifact's parent_id is absent or the id of a stored artifact,
\* and its owner_id is the id of a stored user.
ArtifactsReferenced(U, A) ==
    \A a \in DOMAIN A :
       /\ A[a].parent_id = None \/ Val(A[a].parent_id) \in DOMAIN A
       /\ A[a].owner_id \in DOMAIN U

\* A create_artifact was just served whose parent_id names no stored artifact.
CreateWithUnknownParent ==
    /\ ArtServed("create_artifact")
    /\ art_response'.args.parent_id # None
    /\ Val(art_response'.args.parent_id) \notin DOMAIN artifacts

\* C21 as stated: the references of the stored artifacts hold in every
\* reachable state, and a create_artifact naming a parent_id that is not
\* stored is rejected and stores nothing.
C21_UnknownParentRejected ==
    [][/\ ArtifactsReferenced(art_users', artifacts')
       /\ CreateWithUnknownParent
          => /\ art_response'.status # 200
             /\ artifacts' = artifacts]_vars

\* C21, amended: the references of the stored artifacts hold in every
\* reachable state; a create_artifact naming a parent_id that is neither
\* stored nor the id the new artifact itself receives is rejected and stores
\* nothing, and one naming the id it receives itself, by a logged-in stored
\* user, is stored as its own parent.
C21_ArtifactTree ==
    [][/\ ArtifactsReferenced(art_users', artifacts')
       /\ (CreateWithUnknownParent
           /\ Val(art_response'.args.parent_id) # artifact_seq + 1)
          => /\ art_response'.status # 200
             /\ artifacts' = artifacts
       /\ (CreateWithUnknownParent
           /\ Val(art_response'.args.parent_id) = artifact_seq + 1
           /\ art_current_user # None
           /\ Val(art_current_user).id \in DOMAIN art_users)
          => /\ art_response'.status = 200
             /\ DOMAIN artifacts' = DOMAIN artifacts \cup {artifact_seq + 1}
             /\ artifacts'[artifact_seq + 1].parent_id
                  = Some(artifact_seq + 1)]_vars

\* A logged-in stored user's create_artifact was rejected for its parent_id,
\* once a reset has left current_user behind a new user table.
C21_Witness ==
    /\ art_response.route = "create_artifact"
    /\ art_response.status = 500
    /\ art_response.args.parent_id # None
    /\ Val(art_response.args.parent_id) \notin DOMAIN artifacts
    /\ art_current_user # None
    /\ Val(art_current_user).id \in DOMAIN art_users
    /\ art_users[Val(art_current_user).id].username
         # Val(art_current_user).username

\* C22: GET /api/artifact/{artifact_id} for an id that is not stored is
\* answered 404, the status for a missing resource, not 500.
C22_MissingArtifact404 ==
    [][(ArtServed("get_artifact_by_id")
        /\ art_response'.args \notin DOMAIN artifacts)
       => art_response'.status = 404]_vars

\* ================================================ properties of the autograder
RECURSIVE SumOf(_, _)
SumOf(tests, field) ==
    IF tests = <<>> THEN 0
    ELSE tests[1][field] + SumOf(Tail(tests), field)

Last(seq) == seq[Len(seq)]

\* An "API Tests" entry is the last entry, scores 0, and the checks are over.
ApiTestsEntryIsLast ==
    \A i \in DOMAIN results.tests :
       results.tests[i].name = "API Tests"
       => /\ i = Len(results.tests)
          /\ results.tests[i].score = 0
          /\ ag_pc \in {"clean_up", "write_results", "done"}

\* A step of the API checks records one entry and goes on to the next check
\* or to the clean-up; it leaves the checks early only with "API Tests".
ApiStepRecordsOneEntry ==
    ag_pc \in ApiPcs
    => /\ ag_pc' \in ApiPcs \cup {"clean_up"}
       /\ Len(results'.tests) = Len(results.tests) + 1
       /\ \/ ag_pc' # "clean_up"
          \/ ag_pc = Last(ApiChecks).pc
          \/ Last(results'.tests).name = "API Tests"

\* At the end the report holds the results and no server is left running.
ReportWrittenWhenDone ==
    ag_pc = "done"
    => /\ results_json = Some(results)
       /\ server_process # "running"

C24_ScoreAccounting ==
    /\ results.score = SumOf(results.tests, "score")
    /\ results.max_score = SumOf(results.tests, "max_score")
    /\ \A i \in DOMAIN results.tests :
          results.tests[i].score \in {0, results.tests[i].max_score}
    /\ 0 <= results.score
    /\ results.score <= results.max_score

\* A report with checks passed and checks failed.
C24_Witness ==
    /\ results_json = Some(results)
    /\ 0 < results.score
    /\ results.score < results.max_score
    /\ Len(results.tests) = 17

\* C27: the max_score written to the report is 100 on every execution path.
C27_MaxScoreIs100 ==
    results_json # None => Val(results_json).max_score = 100

\* The stored user a login with these form fields finds, if any.
LoginMatches(args) ==
    \E i \in DOMAIN hw3_users :
       /\ hw3_users[i].email = args.email
       /\ hw3_verify_password(args.password, hw3_users[i].password)

C26_UpdateBookAtomic ==
    [][(/\ Served("update_book")
        /\ Val(response'.id) \in DOMAIN books
        /\ response'.args.author_id # None
        /\ Val(response'.args.author_id) \notin DOMAIN authors
        /\ Supplied(response'.args, {"title", "year"}) # {})
       => /\ response'.status = 404
          /\ books' = books
          /\ authors' = authors]_vars

\* A PATCH with another title and an unknown author_id was answered 404 and
\* the stored book has kept its title.
C26_Witness ==
    /\ response.op = "update_book"
    /\ response.status = 404
    /\ Val(response.id) \in DOMAIN books
    /\ response.args.author_id # None
    /\ Val(response.args.author_id) \notin DOMAIN authors
    /\ response.args.title # None
    /\ books[Val(response.id)].title # Val(response.args.title)

\* ================================================ properties of the item store
\* C28: every create_item stores its item under a key that was not in use,
\* so no stored item is overwritten or lost: after n creations the keys are
\* 1..n and read_item(k) finds the k-th created item, also when two
\* create_item requests are handled concurrently.
C28_NoItemOverwritten ==
    [][/\ \A k \in DOMAIN items : k \in DOMAIN items' /\ items'[k] = items[k]
       /\ DOMAIN items' = 1..Len(created_items')
       /\ \A k \in DOMAIN items' :
             read_item(items', k) = [status |-> 204,
                                     body |-> created_items'[k]]]_vars

\* ============================================= properties of the click counter
\* C29: after any interleaving of n GET /click requests and any number of
\* GET / requests, click_count is n; each /click response shows the value
\* after its own increment, so the n responses show 1..n; GET / never
\* changes click_count.
C29_ClickCount ==
    [][/\ click_count' = Len(shown_counts')
       /\ \A i \in DOMAIN shown_counts' : shown_counts'[i] = i
       /\ (click_response.route = "none" /\ click_response'.route = "/click")
          => click_response'.body = Some(click_count')
       /\ (click_response.route = "none" /\ click_response'.route = "/")
          => /\ click_count' = click_count
             /\ click_response'.body = Some(click_count)]_vars

\* Three clicks were served, to both browsers; the page of the browser that
\* clicked first still shows 1 and the other's shows 3.
C29_Witness ==
    /\ click_count = Len(shown_counts)
    /\ Len(shown_counts) = 3
    /\ displayed[1] = Some(1)
    /\ displayed[2] = Some(3)

====
